---------------------------- MODULE Spec2Model ----------------------------
(***************************************************************************)
(* MoodShare: the follow / like edge stores, the feed query and the        *)
(* password-reset token of app/models.py, with the page routes and the     *)
(* JSON API handlers that drive them (app/routes.py, app/api.py).          *)
(*                                                                         *)
(* The two association tables are modelled as tables of rows, that is as   *)
(* multisets of id pairs: `followers` declares no key at all, `likes`      *)
(* declares the composite primary key (user_id, post_id), which the store  *)
(* enforces on INSERT.                                                     *)
(***************************************************************************)
EXTENDS Integers, Sequences, FiniteSets, TLC

\* ------------------------------------------------------------------ bounds
NumUsers == 2
MaxPosts == 2
MaxTokens == 1
\* The clock counts ticks, TicksPerSec to the second.
TicksPerSec == 2

\* get_reset_password_token(self, expires_in=600)
reset_expires_in == 600

Users   == 1..NumUsers
PostIds == 1..MaxPosts
\* User.query.get / Post.query.get of an id that has no row: Python's None
None == 0

VARIABLES
    followers,      \* rows of the followers table: <<follower_id, followed_id>> -> row count
    likes,          \* rows of the likes table: <<user_id, post_id>> -> row count
    accounts,       \* rows of the user table: records [id, username, email, about_me, last_seen]
    posts,          \* rows of the post table: records [id, user_id, timestamp, body]
    now,            \* the wall clock, in ticks
    reqs,           \* per request worker, the page request it is serving, if any
    issued,         \* the password-reset tokens issued so far (mailed to their users)
    password_hash,  \* user id -> the stored credential
    session,        \* the user the browser session is logged in as, None when it is not
    lastCall,       \* per ordered pair, the most recent of follow / unfollow called on it
    lastOp          \* the call or request that produced the current state, and its outcome

vars == <<accounts, followers, likes, posts, now, reqs, issued, password_hash, session, lastCall, lastOp>>

\* the state the edge and feed operations never touch
authVars == <<accounts, issued, password_hash, session>>

Pairs == Users \X Users

\* The request workers: two requests can be in service at the same time.
Workers == {"w1", "w2"}
Idle == [pc |-> "idle", kind |-> "none", cu |-> None, arg |-> None, pending |-> "none"]
InService(kind, cu, arg, pending) ==
    [pc |-> "commit", kind |-> kind, cu |-> cu, arg |-> arg, pending |-> pending]

Passwords == {"pw1", "pw2"}
\* the password the user fixtures are created with
FirstPassword == "pw1"
LikeKeys == Users \X PostIds

\* What is observed of one call: its name and arguments, whether the edge it is
\* about was present before it (pre), whether the call before it was the same
\* call (rep), whether it raised (err), and what it returned (ret).
Op(name, x, y, pre, rep, err, ret) ==
    [op |-> name, a |-> x, b |-> y, pre |-> pre, rep |-> rep, err |-> err, ret |-> ret]

SameCall(name, x, y) == lastOp.op = name /\ lastOp.a = x /\ lastOp.b = y

\* ================================================================ strings
\* A string is the sequence of its characters.
Rep(c, n) == [i \in 1..n |-> c]

\* str.strip(): the string without its leading and trailing whitespace
Whitespace == {" ", "\t"}
RECURSIVE lstrip(_)
lstrip(s) == IF s # <<>> /\ Head(s) \in Whitespace THEN lstrip(Tail(s)) ELSE s
RECURSIVE rstrip(_)
rstrip(s) ==
    IF s # <<>> /\ s[Len(s)] \in Whitespace THEN rstrip(SubSeq(s, 1, Len(s) - 1)) ELSE s
strip_none(s) == s
strip(s) == rstrip(lstrip(s))

\* the user fixtures: user u is registered as UserName(u) with the address Mail(u)
UserName(u) == <<"U">> \o Rep("s", u)
Mail(u) == Rep("m", u) \o <<"@", "x">>
Fixtures ==
    {[id |-> u, username |-> UserName(u), email |-> Mail(u), about_me |-> <<>>,
      last_seen |-> 0] : u \in Users}

\* =================================================================== User
\* werkzeug's generate_password_hash(password) / check_password_hash(hash,
\* password): a one-way digest of the password, never the password itself
generate_password_hash_plain(password) == <<password>>
generate_password_hash(password) == <<"pbkdf2:sha256", password>>
check_password_hash(h, password) == h = generate_password_hash(password)

\* self.password_hash = generate_password_hash(password)
set_password(ph, self, password) == [ph EXCEPT ![self] = generate_password_hash(password)]

\* User.query.get(id)
query_get(id) == IF id \in Users THEN id ELSE None

\* followers.c.followed_id == user.id ... .count() > 0
is_following(f, self, user) == f[<<self, user>>] > 0

\* self.followed.append(user): one INSERT into followers (the table has no key)
append_followed(f, self, user) == [f EXCEPT ![<<self, user>>] = @ + 1]

\* self.followed.remove(user): DELETE FROM followers WHERE follower_id = self
\* AND followed_id = user, expected to match one row. With another number of
\* matching rows the ORM either raises (StaleDataError, nothing deleted) or, on
\* a driver without a usable row count, deletes whatever matched.
remove_followed(f, self, user) ==
    LET gone == [f EXCEPT ![<<self, user>>] = 0]
    IN  IF f[<<self, user>>] = 1
        THEN {[rows |-> gone, err |-> FALSE]}
        ELSE {[rows |-> f, err |-> TRUE], [rows |-> gone, err |-> FALSE]}

follow_noguard(f, self, user) == append_followed(f, self, user)

follow(f, self, user) ==
    IF ~is_following(f, self, user) THEN append_followed(f, self, user) ELSE f

unfollow_noguard(f, self, user) == remove_followed(f, self, user)

unfollow(f, self, user) ==
    IF is_following(f, self, user)
    THEN remove_followed(f, self, user)
    ELSE {[rows |-> f, err |-> FALSE]}

\* user.followers.count(): rows of followers whose followed_id is the user
follower_count(f, user) ==
    LET RECURSIVE Sum(_)
        Sum(S) == IF S = {} THEN 0
                  ELSE LET x == CHOOSE x \in S : TRUE
                       IN  f[<<x, user>>] + Sum(S \ {x})
    IN  Sum(Users)

\* ------------------------------------------------------------------ tokens
\* app.config['SECRET_KEY'], and a key that is not it
SECRET_KEY == "secret-key"
OtherKey == "other-key"

\* jwt.encode(payload, key, algorithm='HS256'): three segments, the third the
\* HMAC of the first two under the key
Sign(payload, key) == <<"HS256", key, payload>>
jwt_encode(payload, key) == [segments |-> 3, payload |-> payload, sig |-> Sign(payload, key)]

\* a string that is no JWT, such as 'invalid-token'
Garbage == [segments |-> 1, payload |-> [exp |-> 0], sig |-> <<>>]

\* exp = int(payload['exp']): the expiry in whole seconds, as ticks
IntExp(payload) == (payload.exp \div TicksPerSec) * TicksPerSec

Decoded(exc, payload) == [exc |-> exc, payload |-> payload]

jwt_decode_noexp(token, key, t) ==
    IF token.segments # 3 THEN Decoded("DecodeError", token.payload)
    ELSE IF token.sig # Sign(token.payload, key)
    THEN Decoded("InvalidSignatureError", token.payload)
    ELSE Decoded("none", token.payload)

\* jwt.decode(token, key, algorithms=['HS256']) at time t (PyJWT 2: the token
\* is expired when exp <= now, now the clock as a float)
jwt_decode(token, key, t) ==
    IF token.segments # 3 THEN Decoded("DecodeError", token.payload)
    ELSE IF token.sig # Sign(token.payload, key)
    THEN Decoded("InvalidSignatureError", token.payload)
    ELSE IF "exp" \in DOMAIN token.payload /\ IntExp(token.payload) <= t
    THEN Decoded("ExpiredSignatureError", token.payload)
    ELSE Decoded("none", token.payload)

get_reset_password_token_noexpiry(self, t) ==
    jwt_encode([reset_password |-> self, exp |-> t], SECRET_KEY)

\* User.get_reset_password_token at time t: exp = time() + expires_in
get_reset_password_token(self, t) ==
    jwt_encode([reset_password |-> self, exp |-> t + reset_expires_in * TicksPerSec],
               SECRET_KEY)

\* User.verify_reset_password_token at time t; the bare except turns every
\* exception of jwt.decode, and the KeyError of ['reset_password'], into None
\* (a verification that reads the user id from whichever claim the token has)
verify_any_token(token, t) ==
    LET d == jwt_decode(token, SECRET_KEY, t)
    IN  IF d.exc # "none" THEN None
        ELSE IF "reset_password" \in DOMAIN d.payload
        THEN query_get(d.payload.reset_password)
        ELSE query_get(d.payload.user_id)

verify_reset_password_token(token, t) ==
    LET d == jwt_decode(token, SECRET_KEY, t)
    IN  IF d.exc # "none" THEN None
        ELSE IF "reset_password" \notin DOMAIN d.payload THEN None
        ELSE query_get(d.payload.reset_password)

\* ------------------------------------------------------------ feed query
\* A query result is a table of post rows: post row -> number of times it is in it.
\* Post.query.join(followers, followers.c.followed_id == Post.user_id)
\*     .filter(followers.c.follower_id == self.id): one result row per
\* (followers row, post row) pair that joins
followed_query_swapped(f, P, self) == [r \in P |-> f[<<r.user_id, self>>]]

followed_query(f, P, self) == [r \in P |-> f[<<self, r.user_id>>]]

\* Post.query.filter_by(user_id=self.id)
own_query(P, self) == [r \in P |-> IF r.user_id = self THEN 1 ELSE 0]

\* (UNION ALL would keep every copy)
union_all(q1, q2) == [r \in DOMAIN q1 |-> q1[r] + q2[r]]

\* q1.union(q2): SQL UNION keeps one copy of every distinct row
union(q1, q2) == [r \in DOMAIN q1 |-> IF q1[r] + q2[r] > 0 THEN 1 ELSE 0]

\* Query.count()
query_count(q) ==
    LET RECURSIVE Sum(_)
        Sum(S) == IF S = {} THEN 0
                  ELSE LET x == CHOOSE x \in S : TRUE
                       IN  q[x] + Sum(S \ {x})
    IN  Sum(DOMAIN q)

\* q.order_by(Post.timestamp.desc()): every listing of the rows of q with the
\* timestamps not increasing; rows of equal timestamp come in any order
\* the orders a database may return rows of equal timestamp in
RECURSIVE any_order(_)
any_order(q) ==
    LET rows == {r \in DOMAIN q : q[r] > 0}
    IN  IF rows = {} THEN {<<>>}
        ELSE UNION {{<<r>> \o t : t \in any_order([q EXCEPT ![r] = @ - 1])} : r \in rows}

\* the listings of the rows of q with a timestamp in lo..hi, newest first
RECURSIVE order_range(_, _, _)
order_range(q, lo, hi) ==
    LET rows == {r \in DOMAIN q : q[r] > 0 /\ r.timestamp \in lo..hi}
        mid  == (lo + hi) \div 2
    IN  IF rows = {} THEN {<<>>}
        ELSE IF lo = hi THEN any_order([r \in rows |-> q[r]])
        ELSE {newer \o older : newer \in order_range(q, mid + 1, hi),
                               older \in order_range(q, lo, mid)}

max_timestamp(rows) ==
    CHOOSE m \in {r.timestamp : r \in rows} : \A r \in rows : r.timestamp <= m

order_by_timestamp_desc(q) ==
    LET rows == {r \in DOMAIN q : q[r] > 0}
    IN  IF rows = {} THEN {<<>>} ELSE order_range(q, 0, max_timestamp(rows))

\* User.followed_posts: the listings the query can return
followed_posts(f, P, self) ==
    order_by_timestamp_desc(union(followed_query(f, P, self), own_query(P, self)))

\* followed_posts().count()
followed_posts_count(f, P, self) ==
    query_count(union(followed_query(f, P, self), own_query(P, self)))

\* =================================================================== Post
\* Post.query.get(post_id)
PostExists(P, i) == \E r \in P : r.id = i

\* Post(body=..., author=author); db.session.add(post); db.session.commit():
\* the next integer primary key, timestamp = default datetime.utcnow()
NextPostId(P) == IF P = {} THEN 1 ELSE 1 + CHOOSE m \in {r.id : r \in P} :
                                            \A r \in P : r.id <= m
add_post(P, author, t, body) ==
    P \cup {[id |-> NextPostId(P), user_id |-> author, timestamp |-> t, body |-> body]}

\* a post with the text of the fixture
TestBody == <<"H", "i">>
new_post(P, author, t) == add_post(P, author, t, TestBody)

\* self.likers.filter(likes.c.user_id == user.id).count() > 0
is_liked_by(l, post, user) == l[<<user, post>>] > 0

\* self.likers.count()
like_count(l, post) ==
    LET RECURSIVE Sum(_)
        Sum(S) == IF S = {} THEN 0
                  ELSE LET x == CHOOSE x \in S : TRUE
                       IN  l[<<x, post>>] + Sum(S \ {x})
    IN  Sum(Users)

insert_like_nokey(l, post, user) ==
    {[rows |-> [l EXCEPT ![<<user, post>>] = @ + 1], err |-> FALSE]}

\* One INSERT into likes. (user_id, post_id) is the table's primary key: a
\* second row for the pair is refused (IntegrityError) and nothing is stored.
insert_like(l, post, user) ==
    IF l[<<user, post>>] >= 1
    THEN {[rows |-> l, err |-> TRUE]}
    ELSE {[rows |-> [l EXCEPT ![<<user, post>>] = @ + 1], err |-> FALSE]}

\* self.likers.remove(user): DELETE FROM likes WHERE ..., expected to match one row
remove_liker(l, post, user) ==
    LET gone == [l EXCEPT ![<<user, post>>] = 0]
    IN  IF l[<<user, post>>] = 1
        THEN {[rows |-> gone, err |-> FALSE]}
        ELSE {[rows |-> l, err |-> TRUE], [rows |-> gone, err |-> FALSE]}

like_noguard(l, post, user) == insert_like(l, post, user)

like(l, post, user) ==
    IF ~is_liked_by(l, post, user)
    THEN insert_like(l, post, user)
    ELSE {[rows |-> l, err |-> FALSE]}

unlike_noguard(l, post, user) == remove_liker(l, post, user)

unlike(l, post, user) ==
    IF is_liked_by(l, post, user)
    THEN remove_liker(l, post, user)
    ELSE {[rows |-> l, err |-> FALSE]}

\* ------------------------------------------------- model-layer calls (tests)
\* user.follow(target); db.session.commit()
CallFollow(a, b) ==
    /\ followers' = follow(followers, a, b)
    /\ lastCall' = [lastCall EXCEPT ![<<a, b>>] = "follow"]
    /\ lastOp' = Op("follow", a, b, is_following(followers, a, b),
                    SameCall("follow", a, b), FALSE, None)
    /\ UNCHANGED <<likes, posts, now, reqs, authVars>>

\* user.unfollow(target); db.session.commit()
CallUnfollow(a, b) ==
    /\ \E o \in unfollow(followers, a, b) :
          /\ followers' = o.rows
          /\ lastOp' = Op("unfollow", a, b, is_following(followers, a, b),
                          SameCall("unfollow", a, b), o.err, None)
    /\ lastCall' = [lastCall EXCEPT ![<<a, b>>] = "unfollow"]
    /\ UNCHANGED <<likes, posts, now, reqs, authVars>>

SameLike(p, u) == lastOp.op \in {"like", "like_api"} /\ lastOp.a = p /\ lastOp.b = u

\* post.like(user); db.session.commit()
CallLike(p, u) ==
    /\ PostExists(posts, p)
    /\ \E o \in like(likes, p, u) :
          /\ likes' = o.rows
          /\ lastOp' = Op("like", p, u, is_liked_by(likes, p, u),
                          SameLike(p, u), o.err, None)
    /\ UNCHANGED <<followers, posts, now, lastCall, reqs, authVars>>

\* post.unlike(user); db.session.commit()
CallUnlike(p, u) ==
    /\ PostExists(posts, p)
    /\ \E o \in unlike(likes, p, u) :
          /\ likes' = o.rows
          /\ lastOp' = Op("unlike", p, u, is_liked_by(likes, p, u),
                          SameCall("unlike", p, u), o.err, None)
    /\ UNCHANGED <<followers, posts, now, lastCall, reqs, authVars>>

\* POST /api/posts/<post_id>/like as g.current_user = u. ret is
\* <<status, like_count>>; a failed commit is the 500 of the error handler.
like_post_api(p, u) ==
    /\ IF ~PostExists(posts, p)
       THEN /\ likes' = likes
            /\ lastOp' = Op("like_api", p, u, FALSE, SameLike(p, u), FALSE, <<404, 0>>)
       ELSE IF is_liked_by(likes, p, u)
       THEN /\ likes' = likes
            /\ lastOp' = Op("like_api", p, u, TRUE, SameLike(p, u), FALSE,
                            <<200, like_count(likes, p)>>)
       ELSE \E o \in like(likes, p, u) :
            /\ likes' = o.rows
            /\ lastOp' = Op("like_api", p, u, FALSE, SameLike(p, u), o.err,
                            IF o.err THEN <<500, 0>> ELSE <<200, like_count(o.rows, p)>>)
    /\ UNCHANGED <<followers, posts, now, lastCall, reqs, authVars>>

\* DELETE /api/posts/<post_id>/like as g.current_user = u
unlike_post_api(p, u) ==
    /\ IF ~PostExists(posts, p)
       THEN /\ likes' = likes
            /\ lastOp' = Op("unlike_api", p, u, FALSE, SameCall("unlike_api", p, u),
                            FALSE, <<404, 0>>)
       ELSE IF ~is_liked_by(likes, p, u)
       THEN /\ likes' = likes
            /\ lastOp' = Op("unlike_api", p, u, FALSE, SameCall("unlike_api", p, u),
                            FALSE, <<200, like_count(likes, p)>>)
       ELSE \E o \in unlike(likes, p, u) :
            /\ likes' = o.rows
            /\ lastOp' = Op("unlike_api", p, u, TRUE, SameCall("unlike_api", p, u), o.err,
                            IF o.err THEN <<500, 0>> ELSE <<200, like_count(o.rows, p)>>)
    /\ UNCHANGED <<followers, posts, now, lastCall, reqs, authVars>>

\* The calls of one user, the one logged in, as the feed sees them. They are
\* made on the model, which takes b = self as well (the page route does not).
\* user.follow(b); db.session.commit()
FeedFollow(b) ==
    /\ session # None
    /\ followers' = follow(followers, session, b)
    /\ lastOp' = Op("follow", session, b, is_following(followers, session, b),
                    FALSE, FALSE, None)
    /\ UNCHANGED <<likes, posts, now, lastCall, reqs, authVars>>

\* user.unfollow(b); db.session.commit()
FeedUnfollow(b) ==
    /\ session # None
    /\ \E o \in unfollow(followers, session, b) :
          /\ followers' = o.rows
          /\ lastOp' = Op("unfollow", session, b, FALSE, FALSE, o.err, None)
    /\ UNCHANGED <<likes, posts, now, lastCall, reqs, authVars>>

\* A post created when the clock, read by default=datetime.utcnow, shows t:
\* the reading of the previous post (a tie) or a later one.
FeedNewPost(u, t) ==
    /\ Cardinality(posts) < MaxPosts
    /\ now' = t
    /\ posts' = new_post(posts, u, t)
    /\ lastOp' = Op("post", NextPostId(posts), u, FALSE, FALSE, FALSE, None)
    /\ UNCHANGED <<followers, likes, lastCall, reqs, authVars>>

\* ===================================================== page routes (routes.py)
\* A page request that writes runs in two steps: the handler up to its
\* db.session.commit(), which reads the store and leaves the INSERT or DELETE
\* pending in its own session, and the commit, which applies it to the store as
\* it then is. Requests of other workers may run in between. A request that
\* leaves nothing pending commits an empty transaction and is over at once.
\* before_request: current_user.last_seen = datetime.utcnow() and a commit of
\* its own, when current_user.is_authenticated (cu is not None)
before_request(A, cu, t) ==
    IF cu = None THEN A
    ELSE {IF r.id = cu THEN [r EXCEPT !.last_seen = t] ELSE r : r \in A}

Redirect(to, flash) == [status |-> 302, to |-> to, flash |-> flash]

\* @login_required for a request without a logged-in user: the redirect to
\* the login view, and the route function does not run
LoginRequired(w, kind) ==
    /\ reqs' = [reqs EXCEPT ![w] = Idle]
    /\ lastOp' = Op(kind, None, None, FALSE, FALSE, FALSE, Redirect("login", ""))

Respond(w, kind, err, status) ==
    /\ reqs' = [reqs EXCEPT ![w] = Idle]
    /\ lastOp' = Op(kind, None, None, FALSE, FALSE, err, status)

Serve(w, kind, cu, arg, pending) ==
    /\ reqs' = [reqs EXCEPT ![w] = InService(kind, cu, arg, pending)]
    /\ UNCHANGED lastOp

\* POST /follow/<username> as current_user = cu; name is the user of that
\* username, None when there is none; form_ok is form.validate_on_submit()
\* (a follow route that takes the requester as its target)
route_follow_self(w, cu, name, form_ok) ==
    /\ reqs[w].pc = "idle"
    /\ IF cu = None THEN LoginRequired(w, "follow_route")
       ELSE IF ~form_ok \/ name = None
       THEN Respond(w, "follow_route", FALSE, 302)
       ELSE IF is_following(followers, cu, name)
       THEN Respond(w, "follow_route", FALSE, 302)
       ELSE Serve(w, "follow_route", cu, name, "insert")
    /\ accounts' = before_request(accounts, cu, now)
    /\ UNCHANGED <<followers, likes, posts, now, lastCall, issued, password_hash, session>>

route_follow(w, cu, name, form_ok) ==
    /\ reqs[w].pc = "idle"
    /\ IF cu = None THEN LoginRequired(w, "follow_route")
       ELSE IF ~form_ok \/ name = None \/ name = cu
       THEN Respond(w, "follow_route", FALSE, 302)
       ELSE IF is_following(followers, cu, name)
       THEN Respond(w, "follow_route", FALSE, 302)
       ELSE Serve(w, "follow_route", cu, name, "insert")
    /\ accounts' = before_request(accounts, cu, now)
    /\ UNCHANGED <<followers, likes, posts, now, lastCall, issued, password_hash, session>>

\* POST /unfollow/<username> as current_user = cu
route_unfollow(w, cu, name, form_ok) ==
    /\ reqs[w].pc = "idle"
    /\ IF cu = None THEN LoginRequired(w, "unfollow_route")
       ELSE IF ~form_ok \/ name = None \/ name = cu
       THEN Respond(w, "unfollow_route", FALSE, 302)
       ELSE IF ~is_following(followers, cu, name)
       THEN Respond(w, "unfollow_route", FALSE, 302)
       ELSE Serve(w, "unfollow_route", cu, name, "delete")
    /\ accounts' = before_request(accounts, cu, now)
    /\ UNCHANGED <<followers, likes, posts, now, lastCall, issued, password_hash, session>>

\* POST /like/<post_id> as current_user = cu
like_post(w, cu, post_id) ==
    /\ reqs[w].pc = "idle"
    /\ IF cu = None THEN LoginRequired(w, "like_route")
       ELSE IF ~PostExists(posts, post_id)
       THEN Respond(w, "like_route", FALSE, 404)
       ELSE IF is_liked_by(likes, post_id, cu)
       THEN Respond(w, "like_route", FALSE, 302)
       ELSE Serve(w, "like_route", cu, post_id, "insert")
    /\ accounts' = before_request(accounts, cu, now)
    /\ UNCHANGED <<followers, likes, posts, now, lastCall, issued, password_hash, session>>

\* POST /unlike/<post_id> as current_user = cu
unlike_post(w, cu, post_id) ==
    /\ reqs[w].pc = "idle"
    /\ IF cu = None THEN LoginRequired(w, "unlike_route")
       ELSE IF ~PostExists(posts, post_id)
       THEN Respond(w, "unlike_route", FALSE, 404)
       ELSE IF ~is_liked_by(likes, post_id, cu)
       THEN Respond(w, "unlike_route", FALSE, 302)
       ELSE Serve(w, "unlike_route", cu, post_id, "delete")
    /\ accounts' = before_request(accounts, cu, now)
    /\ UNCHANGED <<followers, likes, posts, now, lastCall, issued, password_hash, session>>

\* db.session.commit() of follow / unfollow: the pending statement runs against
\* the followers table as it is now; a failed flush rolls back and answers 500
commit_follow(w) ==
    /\ reqs[w].pc = "commit"
    /\ reqs[w].kind \in {"follow_route", "unfollow_route"}
    /\ LET r == reqs[w]
           outcomes == IF r.pending = "insert"
                       THEN {[rows |-> append_followed(followers, r.cu, r.arg), err |-> FALSE]}
                       ELSE remove_followed(followers, r.cu, r.arg)
       IN  \E o \in outcomes :
              /\ followers' = o.rows
              /\ Respond(w, r.kind, o.err, IF o.err THEN 500 ELSE 302)
    /\ UNCHANGED <<likes, posts, now, lastCall, authVars>>

\* db.session.commit() of like / unlike
commit_like(w) ==
    /\ reqs[w].pc = "commit"
    /\ reqs[w].kind \in {"like_route", "unlike_route"}
    /\ LET r == reqs[w]
           outcomes == IF r.pending = "insert"
                       THEN insert_like(likes, r.arg, r.cu)
                       ELSE remove_liker(likes, r.arg, r.cu)
       IN  \E o \in outcomes :
              /\ likes' = o.rows
              /\ Respond(w, r.kind, o.err, IF o.err THEN 500 ELSE 302)
    /\ UNCHANGED <<followers, posts, now, lastCall, authVars>>

\* ============================================= password reset (routes.py)
storeVars == <<accounts, followers, likes, posts, reqs, session, lastCall>>

\* what a client can present as a reset token: a token mailed to a user, such
\* a token with its user id or its expiry altered, a token signed with another
\* key, a string that is no token
Altered(tok) ==
    {[tok EXCEPT !.payload.exp = @ + reset_expires_in * TicksPerSec]}
       \cup {[tok EXCEPT !.payload.reset_password = u] : u \in Users \ {tok.payload.reset_password}}

Presentable ==
    {i.token : i \in issued}
       \cup UNION {Altered(i.token) : i \in issued}
       \cup {jwt_encode([reset_password |-> u,
                         exp |-> 3 * reset_expires_in * TicksPerSec], OtherKey) :
                u \in Users}
       \cup {Garbage}

\* time passes by one tick, within the running second
TickFine ==
    /\ (now % TicksPerSec) + 1 < TicksPerSec
    /\ now' = now + 1
    /\ lastOp' = Op("tick", None, None, FALSE, FALSE, FALSE, None)
    /\ UNCHANGED <<storeVars, issued, password_hash>>

\* the mail waits in its inbox: secs whole seconds pass, once
Wait(secs) ==
    /\ now < TicksPerSec
    /\ now' = now + secs * TicksPerSec
    /\ lastOp' = Op("tick", None, None, FALSE, FALSE, FALSE, None)
    /\ UNCHANGED <<storeVars, issued, password_hash>>

\* GET or POST /reset_password_request: authenticated is
\* current_user.is_authenticated, submitted is form.validate_on_submit(), u the
\* user whose e-mail address the form holds (None when it is nobody's).
\* send_password_reset_email(user) mails user.get_reset_password_token().
\* The mails are asked for during the first second, MaxTokens of them at most.
ResetTokens == {i \in issued : "reset_password" \in DOMAIN i.token.payload}

reset_password_request(u, authenticated, submitted) ==
    LET mails == ~authenticated /\ submitted /\ u # None
    IN  /\ mails => (Cardinality(ResetTokens) < MaxTokens /\ now < TicksPerSec)
        /\ issued' = IF mails
                     THEN issued \cup {[token |-> get_reset_password_token(u, now),
                                        user |-> u, at |-> now]}
                     ELSE issued
        /\ lastOp' = Op("reset_request", u, None, authenticated, submitted, FALSE,
                        IF authenticated THEN <<302, "index">>
                        ELSE IF submitted THEN <<302, "login">>
                        ELSE <<200, "form">>)
        /\ UNCHANGED <<storeVars, now, password_hash>>

\* User.verify_reset_password_token(token)
CallVerify(token) ==
    /\ lastOp' = Op("verify", token, None, FALSE, FALSE, FALSE,
                    verify_reset_password_token(token, now))
    /\ UNCHANGED <<storeVars, now, issued, password_hash>>

\* GET or POST /reset_password/<token>: authenticated is
\* current_user.is_authenticated, submitted is form.validate_on_submit(),
\* password the form's new password. ret is the status and where it leads.
\* (a reset route that takes a token only while the password is the one the
\* account was created with)
reset_password_once(token, password, authenticated, submitted) ==
    LET user == verify_reset_password_token(token, now)
        used == user # None /\ ~check_password_hash(password_hash[user], FirstPassword)
        ret  == IF authenticated \/ user = None \/ used THEN <<302, "index">>
                ELSE IF submitted THEN <<302, "login">>
                ELSE <<200, "form">>
    IN  /\ password_hash' = IF ~authenticated /\ user # None /\ ~used /\ submitted
                            THEN set_password(password_hash, user, password)
                            ELSE password_hash
        /\ lastOp' = Op("reset_route", token, password, authenticated, submitted, FALSE, ret)
        /\ UNCHANGED <<storeVars, now, issued>>

reset_password(token, password, authenticated, submitted) ==
    LET user == verify_reset_password_token(token, now)
        ret  == IF authenticated \/ user = None THEN <<302, "index">>
                ELSE IF submitted THEN <<302, "login">>
                ELSE <<200, "form">>
    IN  /\ password_hash' = IF ~authenticated /\ user # None /\ submitted
                            THEN set_password(password_hash, user, password)
                            ELSE password_hash
        /\ lastOp' = Op("reset_route", token, password, authenticated, submitted, FALSE, ret)
        /\ UNCHANGED <<storeVars, now, issued>>

\* user.set_password(password) and user.check_password(password), called as
\* the tests call them
CallSetPassword(user, password) ==
    /\ password_hash' = set_password(password_hash, user, password)
    /\ lastOp' = Op("set_password", user, password, FALSE, FALSE, FALSE, None)
    /\ UNCHANGED <<storeVars, now, issued>>

CallCheckPassword(user, password) ==
    /\ lastOp' = Op("check_password", user, password, FALSE, FALSE, FALSE,
                    check_password_hash(password_hash[user], password))
    /\ UNCHANGED <<storeVars, now, issued, password_hash>>

\* ============================================================== JSON API
\* 'exp': datetime.utcnow() + timedelta(hours=24) and 'expires_in': 86400
token_hours == 24
expires_in == 86400
SecsPerHour == 3600

\* User.query.filter_by(username=username).first()
first_by_username(A, username) ==
    IF \E r \in A : r.username = username
    THEN (CHOOSE r \in A : r.username = username).id
    ELSE None

\* User.check_password
check_password(ph, self, password) == check_password_hash(ph[self], password)

login_token_hour(user, t) ==
    jwt_encode([user_id |-> user,
                exp |-> (t \div TicksPerSec) * TicksPerSec + SecsPerHour * TicksPerSec],
               SECRET_KEY)

\* the token api_login makes at time t; jwt.encode writes the datetime of exp
\* as whole seconds since the epoch
\* (a token whose exp keeps the fraction of the second of its issue)
login_token_exact(user, t) ==
    jwt_encode([user_id |-> user, exp |-> t + token_hours * SecsPerHour * TicksPerSec],
               SECRET_KEY)

login_token(user, t) ==
    jwt_encode([user_id |-> user,
                exp |-> (t \div TicksPerSec) * TicksPerSec
                          + token_hours * SecsPerHour * TicksPerSec],
               SECRET_KEY)

\* The JSON body of a login request: json is whether request.get_json() gives
\* a non-empty object, username and password what data.get gives, empty when
\* the key is missing or its value is empty.
LoginData(json, username, password) ==
    [json |-> json, username |-> username, password |-> password]

\* api_login: the response, and the token it hands out if it does
api_login_response(A, ph, data, t) ==
    IF ~data.json THEN [status |-> 400, error |-> "Missing JSON body"]
    ELSE IF data.username = <<>> \/ data.password = ""
    THEN [status |-> 400, error |-> "Username and password required"]
    ELSE LET user == first_by_username(A, data.username)
         IN  IF user = None \/ ~check_password(ph, user, data.password)
             THEN [status |-> 401, error |-> "Invalid username or password"]
             ELSE [status |-> 200, token |-> login_token(user, t),
                   expires_in |-> expires_in, user |-> user]

\* after the wait, time passes to the start of the next whole second
NextSecond ==
    /\ now >= TicksPerSec
    /\ now \div TicksPerSec <= expires_in
    /\ now % TicksPerSec # 0
    /\ now' = ((now \div TicksPerSec) + 1) * TicksPerSec
    /\ lastOp' = Op("tick", None, None, FALSE, FALSE, FALSE, None)
    /\ UNCHANGED <<storeVars, issued, password_hash>>

LoginTokens == {i \in issued : "user_id" \in DOMAIN i.token.payload}

\* POST /api/auth/login. The tokens are asked for during the first second,
\* MaxTokens of them at most.
api_login(data) ==
    LET resp == api_login_response(accounts, password_hash, data, now)
    IN  /\ resp.status = 200 => (Cardinality(LoginTokens) < MaxTokens /\ now < TicksPerSec)
        /\ issued' = IF resp.status = 200
                     THEN issued \cup {[token |-> resp.token, user |-> resp.user, at |-> now]}
                     ELSE issued
        /\ lastOp' = Op("api_login", data, None, FALSE, FALSE, FALSE, resp)
        /\ UNCHANGED <<accounts, followers, likes, posts, reqs, session, lastCall,
                       now, password_hash>>

\* The Authorization header of an API request as token_required reads it:
\* parts is len(auth_header.split()), 0 when there is no such header, scheme
\* is parts[0] and token parts[1].
NoHeader == [parts |-> 0, scheme |-> "", token |-> Garbage]
Header(scheme, token) == [parts |-> 2, scheme |-> scheme, token |-> token]

\* What token_required decides at time t: it answers 401 itself, or it lets
\* the KeyError of payload['user_id'] through (which the framework answers
\* with 500), or it calls the route as g.current_user = user.
Refusal(status, error) == [status |-> status, error |-> error, user |-> None]

token_required(header, t) ==
    IF header.parts # 2 \/ header.scheme # "Bearer" THEN Refusal(401, "Missing token")
    ELSE LET d == jwt_decode(header.token, SECRET_KEY, t)
         IN  IF d.exc = "ExpiredSignatureError" THEN Refusal(401, "Token expired")
             ELSE IF d.exc # "none" THEN Refusal(401, "Invalid token")
             ELSE IF "user_id" \notin DOMAIN d.payload THEN Refusal(500, "KeyError")
             ELSE IF query_get(d.payload.user_id) = None
             THEN Refusal(401, "User not found")
             ELSE [status |-> 200, error |-> "", user |-> query_get(d.payload.user_id)]

\* The JSON body of a create-post request: json is whether request.get_json()
\* gives a non-empty object, has_body is 'body' in data, null is whether
\* data['body'] is null instead of a string.
PostData(json, has_body, null, body) ==
    [json |-> json, has_body |-> has_body, null |-> null, body |-> body]

\* Post.body: db.String(140), and the limit create_post applies
MaxBodyLen == 140

\* create_post as g.current_user = user at time t: the post table and the
\* response. None.strip() raises AttributeError, which is answered with 500.
create_post_result(P, user, data, t) ==
    IF ~data.json \/ ~data.has_body
    THEN [posts |-> P, resp |-> [status |-> 400, error |-> "Post body is required"]]
    ELSE IF data.null
    THEN [posts |-> P, resp |-> [status |-> 500, error |-> "AttributeError"]]
    ELSE LET body == strip(data.body)
         IN  IF Len(body) = 0
             THEN [posts |-> P, resp |-> [status |-> 400, error |-> "Post body cannot be empty"]]
             ELSE IF Len(body) > MaxBodyLen
             THEN [posts |-> P,
                   resp |-> [status |-> 400, error |-> "Post body cannot exceed 140 characters"]]
             ELSE [posts |-> add_post(P, user, t, body),
                   resp |-> [status |-> 201, error |-> "", id |-> NextPostId(P),
                             body |-> body, author |-> user]]

\* db.session.delete(post); db.session.commit(): the row of the post goes, and
\* with it the rows of likes that Post.likers (secondary=likes) holds for it
delete_likes_kept(l, post_id) == l
delete_likes(l, post_id) == [k \in DOMAIN l |-> IF k[2] = post_id THEN 0 ELSE l[k]]
delete_row(P, post_id) == {r \in P : r.id # post_id}

\* Post.query.get(post_id).author
author_of(P, post_id) == (CHOOSE r \in P : r.id = post_id).user_id

\* (a delete that asks nobody)
delete_post_unchecked(P, l, user, post_id) ==
    IF ~PostExists(P, post_id)
    THEN [posts |-> P, likes |-> l, resp |-> [status |-> 404, error |-> "Not Found"]]
    ELSE [posts |-> delete_row(P, post_id), likes |-> delete_likes(l, post_id),
          resp |-> [status |-> 200, error |-> ""]]

\* delete_post_api as g.current_user = user: the tables and the response
delete_post_quiet(P, l, user, post_id) ==
    IF ~PostExists(P, post_id)
    THEN [posts |-> P, likes |-> l, resp |-> [status |-> 200, error |-> ""]]
    ELSE IF author_of(P, post_id) # user
    THEN [posts |-> P, likes |-> l,
          resp |-> [status |-> 403, error |-> "You can only delete your own posts"]]
    ELSE [posts |-> delete_row(P, post_id), likes |-> delete_likes(l, post_id),
          resp |-> [status |-> 200, error |-> ""]]

delete_post_result(P, l, user, post_id) ==
    IF ~PostExists(P, post_id)
    THEN [posts |-> P, likes |-> l, resp |-> [status |-> 404, error |-> "Not Found"]]
    ELSE IF author_of(P, post_id) # user
    THEN [posts |-> P, likes |-> l,
          resp |-> [status |-> 403, error |-> "You can only delete your own posts"]]
    ELSE [posts |-> delete_row(P, post_id), likes |-> delete_likes(l, post_id),
          resp |-> [status |-> 200, error |-> ""]]

\* flask-login's current_user in a request of an API client: the client sends
\* its Authorization header and no session cookie, and load_user works from
\* the session only, so current_user is anonymous
NoCookie == None

\* A request to a route under @token_required, with its Authorization header:
\* DELETE /api/posts/<post_id>, or GET /api/me when post_id is None.
\* ret is the response, with whether the route function ran.
Ran(resp, ran) == [status |-> resp.status, error |-> resp.error, ran |-> ran]

api_request(header, post_id) ==
    LET auth == token_required(header, now)
        out  == delete_post_result(posts, likes, auth.user, post_id)
    IN  /\ IF auth.user = None
           THEN /\ lastOp' = Op("api", header, post_id, FALSE, FALSE, auth.status = 500,
                                Ran(auth, FALSE))
                /\ UNCHANGED <<posts, likes>>
           ELSE IF post_id # None
           THEN /\ posts' = out.posts
                /\ likes' = out.likes
                /\ lastOp' = Op("api", header, post_id, FALSE, FALSE, FALSE,
                                Ran(out.resp, TRUE))
           ELSE /\ lastOp' = Op("api", header, post_id, FALSE, FALSE, FALSE,
                                [status |-> 200, error |-> "", ran |-> TRUE,
                                 user |-> auth.user])
                /\ UNCHANGED <<posts, likes>>
        /\ accounts' = before_request(accounts, NoCookie, now)
        /\ UNCHANGED <<followers, reqs, session, lastCall, now, issued, password_hash>>

\* POST /api/posts as g.current_user = user
create_post(user, data) ==
    LET out == create_post_result(posts, user, data, now)
    IN  /\ Cardinality(out.posts) <= MaxPosts
        /\ posts' = out.posts
        /\ lastOp' = Op("create_post", user, data, FALSE, FALSE, out.resp.status = 500,
                        out.resp)
        /\ UNCHANGED <<accounts, followers, likes, reqs, session, lastCall, now,
                       issued, password_hash>>

\* delete_post of the page routes as current_user = cu: the tables and the
\* response (the notice flashed and where the redirect leads)
delete_post_page_result(P, l, cu, post_id) ==
    IF ~PostExists(P, post_id)
    THEN [posts |-> P, likes |-> l, resp |-> [status |-> 404, error |-> "Not Found"]]
    ELSE IF author_of(P, post_id) # cu
    THEN [posts |-> P, likes |-> l,
          resp |-> Redirect("index", "You can only delete your own posts!")]
    ELSE [posts |-> delete_row(P, post_id), likes |-> delete_likes(l, post_id),
          resp |-> Redirect("referrer", "Post deleted.")]

\* whether the post has a like edge
HasLikes(l, post_id) == \E u \in Users : post_id \in PostIds /\ l[<<u, post_id>>] > 0

\* POST /delete/<post_id> as current_user = cu
delete_post(cu, post_id) ==
    LET out == IF cu = None
               THEN [posts |-> posts, likes |-> likes, resp |-> Redirect("login", "")]
               ELSE delete_post_page_result(posts, likes, cu, post_id)
    IN  /\ posts' = out.posts
        /\ likes' = out.likes
        /\ lastOp' = Op("delete_page", cu, post_id, HasLikes(likes, post_id), FALSE, FALSE,
                        out.resp)
        /\ accounts' = before_request(accounts, cu, now)
        /\ UNCHANGED <<followers, now, lastCall, reqs, issued, password_hash, session>>

\* DELETE /api/posts/<post_id> as g.current_user = user
delete_post_api(user, post_id) ==
    LET out == delete_post_result(posts, likes, user, post_id)
    IN  /\ posts' = out.posts
        /\ likes' = out.likes
        /\ lastOp' = Op("delete_api", user, post_id, HasLikes(likes, post_id), FALSE, FALSE,
                        out.resp)
        /\ UNCHANGED <<followers, now, lastCall, reqs, authVars>>

\* -------------------------------------------- registration, profile edits
\* username = db.Column(..., unique=True), email = db.Column(..., unique=True):
\* the INSERT or UPDATE of row fails when another row of A has its username or
\* its email
unique_none(A, row) == FALSE
unique_violation(A, row) == \E r \in A : r.username = row.username \/ r.email = row.email

\* the id the table gives a new row
next_id(A) == Cardinality(A) + 1

row_of(A, id) == CHOOSE r \in A : r.id = id

\* RegistrationForm.validate_username / validate_email: the field errors
username_taken == "Please use a different username."
email_taken == "Please use a different email address."
RegistrationForm_errors(A, username, email) ==
    (IF \E r \in A : r.username = username THEN {username_taken} ELSE {})
       \cup (IF \E r \in A : r.email = email THEN {email_taken} ELSE {})

\* EditProfileForm(original_username).validate_username
EditProfileForm_errors(A, original_username, username) ==
    IF username # original_username /\ \E r \in A : r.username = username
    THEN {username_taken} ELSE {}

Answer(w, kind, x, y, err, resp) ==
    /\ reqs' = [reqs EXCEPT ![w] = Idle]
    /\ lastOp' = Op(kind, x, y, FALSE, FALSE, err, resp)

\* registrations in service, each of which is to get a row of its own
Registering == {w \in Workers : reqs[w].pc = "commit" /\ reqs[w].kind = "register"}

\* POST /register as current_user = cu (None: nobody is logged in); form_ok is
\* what the other validators of the form say
register(w, cu, username, email, password, form_ok) ==
    /\ reqs[w].pc = "idle"
    /\ IF cu # None
       THEN Answer(w, "register", username, email, FALSE, Redirect("index", ""))
       ELSE IF ~form_ok \/ RegistrationForm_errors(accounts, username, email) # {}
       THEN Answer(w, "register", username, email, FALSE,
                   [status |-> 200,
                    errors |-> RegistrationForm_errors(accounts, username, email)])
       ELSE /\ Cardinality(accounts) + Cardinality(Registering) < NumUsers
            /\ Serve(w, "register", cu,
                     [username |-> username, email |-> email, password |-> password],
                     "insert")
    /\ accounts' = before_request(accounts, cu, now)
    /\ UNCHANGED <<followers, likes, posts, now, lastCall, issued, password_hash, session>>

\* POST /edit_profile as current_user = cu
edit_profile(w, cu, username, about_me, form_ok) ==
    /\ reqs[w].pc = "idle"
    /\ IF cu = None
       THEN Answer(w, "edit_profile", username, about_me, FALSE, Redirect("login", ""))
       ELSE IF ~form_ok
                 \/ EditProfileForm_errors(accounts, row_of(accounts, cu).username, username) # {}
       THEN Answer(w, "edit_profile", username, about_me, FALSE,
                   [status |-> 200,
                    errors |-> EditProfileForm_errors(accounts, row_of(accounts, cu).username,
                                                      username)])
       ELSE Serve(w, "edit_profile", cu, [username |-> username, about_me |-> about_me],
                  "update")
    /\ accounts' = before_request(accounts, cu, now)
    /\ UNCHANGED <<followers, likes, posts, now, lastCall, issued, password_hash, session>>

\* db.session.commit() of register / edit_profile: the INSERT or UPDATE runs
\* against the user table as it is now; an IntegrityError rolls back and the
\* request is answered with 500
commit_user(w) ==
    /\ reqs[w].pc = "commit"
    /\ reqs[w].kind \in {"register", "edit_profile"}
    /\ LET r == reqs[w]
           old == IF r.kind = "register" THEN {} ELSE {row_of(accounts, r.cu)}
           row == IF r.kind = "register"
                  THEN [id |-> next_id(accounts), username |-> r.arg.username,
                        email |-> r.arg.email, about_me |-> <<>>, last_seen |-> now]
                  ELSE [row_of(accounts, r.cu) EXCEPT !.username = r.arg.username,
                                                      !.about_me = r.arg.about_me]
           sent == IF r.kind = "register" THEN r.arg.email ELSE r.arg.about_me
       IN  IF unique_violation(accounts \ old, row)
           THEN /\ Answer(w, r.kind, r.arg.username, sent, TRUE,
                          [status |-> 500, errors |-> {}])
                /\ UNCHANGED <<accounts, password_hash>>
           ELSE /\ accounts' = (accounts \ old) \cup {row}
                /\ password_hash' = IF r.kind = "register"
                                    THEN set_password(password_hash, row.id, r.arg.password)
                                    ELSE password_hash
                /\ Answer(w, r.kind, r.arg.username, sent, FALSE,
                          Redirect(IF r.kind = "register" THEN "login" ELSE "edit_profile",
                                   IF r.kind = "register"
                                   THEN "Congratulations, you are now a registered user!"
                                   ELSE "Your changes have been saved."))
    /\ UNCHANGED <<followers, likes, posts, now, lastCall, issued, session>>

\* ------------------------------------------------------------ API listings
\* request.args.get('per_page', 20, type=int) and min(..., 100)
default_per_page == 20
max_per_page == 100
first_page == 1

\* The query string of a listing request: has_page / has_per_page is whether
\* the key is there with an integer value.
Args(has_page, page, has_per_page, per_page) ==
    [has_page |-> has_page, page |-> page, has_per_page |-> has_per_page,
     per_page |-> per_page]

\* request.args.get(key, default, type=int)
args_get(has, value, default) == IF has THEN value ELSE default

per_page_unclamped(args) == args_get(args.has_per_page, args.per_page, default_per_page)

\* per_page = min(request.args.get('per_page', 20, type=int), 100)
per_page_of(args) ==
    LET asked == args_get(args.has_per_page, args.per_page, default_per_page)
    IN  IF asked < max_per_page THEN asked ELSE max_per_page

page_of(args) == args_get(args.has_page, args.page, first_page)

\* Post.query and user.posts as query results
all_query(P) == [r \in P |-> 1]
user_posts_query(P, user_id) == [r \in P |-> IF r.user_id = user_id THEN 1 ELSE 0]

\* query.paginate(page=page, per_page=per_page, error_out=False) on the
\* listing s the ordered query gives, for page >= 1 and per_page >= 1:
\* items is OFFSET (page - 1) * per_page LIMIT per_page, total the row count,
\* pages = ceil(total / per_page)
paginate(s, page, per_page) ==
    LET total == Len(s)
        pages == (total + per_page - 1) \div per_page
        lo    == (page - 1) * per_page + 1
        hi    == IF page * per_page < total THEN page * per_page ELSE total
    IN  [items |-> SubSeq(s, lo, hi), total |-> total, pages |-> pages,
         has_next |-> page < pages, has_prev |-> page > 1]

\* the pagination object of get_posts ...
pagination6(args, pg) ==
    [page |-> page_of(args), per_page |-> per_page_of(args), total_pages |-> pg.pages,
     total_items |-> pg.total, has_next |-> pg.has_next, has_prev |-> pg.has_prev]

\* ... and that of get_user_posts and get_feed
pagination4(args, pg) ==
    [page |-> page_of(args), per_page |-> per_page_of(args), total_pages |-> pg.pages,
     total_items |-> pg.total]

Listed(name, x, y, resp) == lastOp' = Op(name, x, y, FALSE, FALSE, FALSE, resp)

\* GET /api/posts
get_posts(args) ==
    /\ \E s \in order_by_timestamp_desc(all_query(posts)) :
          LET pg == paginate(s, page_of(args), per_page_of(args))
          IN  Listed("get_posts", None, args,
                     [status |-> 200, posts |-> pg.items, pagination |-> pagination6(args, pg)])
    /\ UNCHANGED <<storeVars, now, issued, password_hash>>

\* GET /api/users/<user_id>/posts
get_user_posts(user_id, args) ==
    /\ IF query_get(user_id) = None
       THEN Listed("get_user_posts", user_id, args, [status |-> 404, error |-> "Not Found"])
       ELSE \E s \in order_by_timestamp_desc(user_posts_query(posts, user_id)) :
               LET pg == paginate(s, page_of(args), per_page_of(args))
               IN  Listed("get_user_posts", user_id, args,
                          [status |-> 200, posts |-> pg.items,
                           pagination |-> pagination4(args, pg)])
    /\ UNCHANGED <<storeVars, now, issued, password_hash>>

\* GET /api/feed as g.current_user = user
get_feed(user, args) ==
    /\ \E s \in followed_posts(followers, posts, user) :
          LET pg == paginate(s, page_of(args), per_page_of(args))
          IN  Listed("get_feed", user, args,
                     [status |-> 200, posts |-> pg.items, pagination |-> pagination4(args, pg)])
    /\ UNCHANGED <<storeVars, now, issued, password_hash>>

\* -------------------------------------------------- API single-item reads
\* user.followed.count(): the rows of followers with follower_id = user
following_count(f, user) ==
    LET RECURSIVE Sum(_)
        Sum(S) == IF S = {} THEN 0
                  ELSE LET x == CHOOSE x \in S : TRUE
                       IN  f[<<user, x>>] + Sum(S \ {x})
    IN  Sum(Users)

\* user.posts.count()
post_count(P, user) == Cardinality({r \in P : r.user_id = user})

user_to_dict(A, f, P, user) ==
    [id |-> user, username |-> row_of(A, user).username, email |-> row_of(A, user).email,
     about_me |-> row_of(A, user).about_me, post_count |-> post_count(P, user),
     follower_count |-> follower_count(f, user),
     following_count |-> following_count(f, user)]

post_to_dict(P, l, post_id, current_user) ==
    LET post == CHOOSE r \in P : r.id = post_id
    IN  [id |-> post.id, body |-> post.body, timestamp |-> post.timestamp,
         author |-> post.user_id, like_count |-> like_count(l, post_id),
         is_liked |-> is_liked_by(l, post_id, current_user)]

Read(name, x, y, resp) ==
    /\ lastOp' = Op(name, x, y, FALSE, FALSE, FALSE, resp)
    /\ UNCHANGED <<storeVars, now, issued, password_hash>>

\* GET /api/posts/<post_id> as g.current_user = user
get_post(user, post_id) ==
    Read("get_post", user, post_id,
         IF ~PostExists(posts, post_id) THEN [status |-> 404, error |-> "Not Found"]
         ELSE [status |-> 200, post |-> post_to_dict(posts, likes, post_id, user)])

\* GET /api/users/<user_id> as g.current_user = user
get_user(user, user_id) ==
    Read("get_user", user, user_id,
         IF query_get(user_id) = None THEN [status |-> 404, error |-> "Not Found"]
         ELSE [status |-> 200, user |-> user_to_dict(accounts, followers, posts, user_id)])

\* ------------------------------------------------------------------ search
\* app.config['POSTS_PER_PAGE']: the page size of the page routes
POSTS_PER_PAGE == 2
\* .limit(10)
search_limit == 10

\* str.lower() on the letters in use
lower_char(c) ==
    IF c = "U" THEN "u" ELSE IF c = "H" THEN "h" ELSE IF c = "S" THEN "s" ELSE c
lower(str) == [i \in DOMAIN str |-> lower_char(str[i])]

\* SQL: text LIKE pattern, where % stands for any run of characters and _ for
\* any one character
RECURSIVE sql_like(_, _)
sql_like(text, pattern) ==
    IF pattern = <<>> THEN text = <<>>
    ELSE IF Head(pattern) = "%"
    THEN sql_like(text, Tail(pattern)) \/ (text # <<>> /\ sql_like(Tail(text), pattern))
    ELSE /\ text # <<>>
         /\ Head(pattern) = "_" \/ Head(pattern) = Head(text)
         /\ sql_like(Tail(text), Tail(pattern))

\* column.ilike(pattern): lower(column) LIKE lower(pattern)
ilike(text, pattern) == sql_like(lower(text), lower(pattern))

\* f'%{query}%'
contains_pattern(query) == <<"%">> \o query \o <<"%">>

\* SearchForm.validate(): q is required
SearchForm_validate(has_q, q) == has_q /\ strip(q) # <<>>

\* Post.query.filter(Post.body.ilike(f'%{query}%'))
body_query(P, query) ==
    [r \in P |-> IF ilike(r.body, contains_pattern(query)) THEN 1 ELSE 0]

\* User.query.filter(User.username.ilike(f'%{query}%')).limit(10).all(): the
\* row sets the unordered query can return
users_found(A, query) ==
    LET found == {r \in A : ilike(r.username, contains_pattern(query))}
    IN  IF Cardinality(found) <= search_limit THEN {found}
        ELSE {found \ {r} : r \in found}

SearchPage(has_q, q, args, resp) ==
    lastOp' = Op("search", q, args, has_q, FALSE, FALSE, resp)

\* GET /search as current_user = cu, with ?q= and ?page= as given
search(cu, has_q, q, args) ==
    /\ IF cu = None
       THEN SearchPage(has_q, q, args, Redirect("login", ""))
       ELSE IF ~SearchForm_validate(has_q, q)
       THEN SearchPage(has_q, q, args, [status |-> 200, users |-> {}, posts |-> <<>>])
       ELSE \E users \in users_found(accounts, q),
               s \in order_by_timestamp_desc(body_query(posts, q)) :
               SearchPage(has_q, q, args,
                          [status |-> 200, users |-> users,
                           posts |-> paginate(s, page_of(args), POSTS_PER_PAGE).items])
    /\ accounts' = before_request(accounts, cu, now)
    /\ UNCHANGED <<followers, likes, posts, reqs, session, lastCall, now, issued,
                   password_hash>>

\* ------------------------------------------------- sessions (routes.py)
\* The browser's session: session is the user id flask-login keeps in the
\* cookie, None when nobody is logged in; it is the current_user of the
\* browser's requests.
PageDone(name, x, y, resp) == lastOp' = Op(name, x, y, session # None, FALSE, FALSE, resp)

\* GET or POST /login: form_ok is form.validate_on_submit()
login(username, password, form_ok) ==
    LET user == first_by_username(accounts, username)
    IN  /\ IF session # None
           THEN /\ PageDone("login", username, password, Redirect("index", ""))
                /\ UNCHANGED session
           ELSE IF ~form_ok
           THEN /\ PageDone("login", username, password, [status |-> 200, to |-> "", flash |-> ""])
                /\ UNCHANGED session
           ELSE IF user = None \/ ~check_password(password_hash, user, password)
           THEN /\ PageDone("login", username, password,
                            Redirect("login", "Invalid username or password"))
                /\ UNCHANGED session
           ELSE /\ PageDone("login", username, password, Redirect("index", ""))
                /\ session' = user
        /\ accounts' = before_request(accounts, session, now)
        /\ UNCHANGED <<followers, likes, posts, reqs, lastCall, now, issued, password_hash>>

\* (a logout that leaves the session as it is)
logout_keep ==
    /\ UNCHANGED session
    /\ PageDone("logout", <<>>, "", Redirect("index", ""))
    /\ accounts' = before_request(accounts, session, now)
    /\ UNCHANGED <<followers, likes, posts, reqs, lastCall, now, issued, password_hash>>

\* GET /logout
logout ==
    /\ session' = None
    /\ PageDone("logout", <<>>, "", Redirect("index", ""))
    /\ accounts' = before_request(accounts, session, now)
    /\ UNCHANGED <<followers, likes, posts, reqs, lastCall, now, issued, password_hash>>

\* PostForm.validate_on_submit(): a POST with a post of 1 to 140 characters
PostForm_validate(submitted, body) == submitted /\ Len(body) \in 1..MaxBodyLen

\* GET or POST / as current_user = cu: a valid form makes a post, anything
\* else shows the first page of the feed
index(cu, submitted, body) ==
    /\ IF cu = None
       THEN /\ lastOp' = Op("index", cu, body, submitted, FALSE, FALSE, Redirect("login", ""))
            /\ UNCHANGED posts
       ELSE IF PostForm_validate(submitted, body)
       THEN /\ NextPostId(posts) <= MaxPosts
            /\ posts' = add_post(posts, cu, now, body)
            /\ lastOp' = Op("index", cu, body, submitted, FALSE, FALSE,
                            Redirect("index", "Your post is now live!"))
       ELSE /\ \E s \in followed_posts(followers, posts, cu) :
                  lastOp' = Op("index", cu, body, submitted, FALSE, FALSE,
                               [status |-> 200,
                                posts |-> paginate(s, first_page, POSTS_PER_PAGE).items])
            /\ UNCHANGED posts
    /\ accounts' = before_request(accounts, cu, now)
    /\ UNCHANGED <<followers, likes, reqs, session, lastCall, now, issued, password_hash>>

\* GET /explore as current_user = cu
explore(cu) ==
    /\ IF cu = None
       THEN lastOp' = Op("explore", cu, <<>>, FALSE, FALSE, FALSE, Redirect("login", ""))
       ELSE \E s \in order_by_timestamp_desc(all_query(posts)) :
               lastOp' = Op("explore", cu, <<>>, FALSE, FALSE, FALSE,
                            [status |-> 200,
                             posts |-> paginate(s, first_page, POSTS_PER_PAGE).items])
    /\ accounts' = before_request(accounts, cu, now)
    /\ UNCHANGED <<followers, likes, posts, reqs, session, lastCall, now, issued,
                   password_hash>>

\* user(username), GET /user/<username>, as current_user = cu
user_page(cu, username) ==
    /\ IF cu = None
       THEN lastOp' = Op("user", cu, username, FALSE, FALSE, FALSE, Redirect("login", ""))
       ELSE IF first_by_username(accounts, username) = None
       THEN lastOp' = Op("user", cu, username, FALSE, FALSE, FALSE,
                         [status |-> 404, posts |-> <<>>])
       ELSE \E s \in order_by_timestamp_desc(
                        user_posts_query(posts, first_by_username(accounts, username))) :
               lastOp' = Op("user", cu, username, FALSE, FALSE, FALSE,
                            [status |-> 200,
                             posts |-> paginate(s, first_page, POSTS_PER_PAGE).items])
    /\ accounts' = before_request(accounts, cu, now)
    /\ UNCHANGED <<followers, likes, posts, reqs, session, lastCall, now, issued,
                   password_hash>>

\* ---------------------------------------------------------- initial states
\* The state after construction: the users exist (with their first password),
\* there are the posts P and the browser session is that of s.
InitFull(F, P, s) ==
    /\ accounts = Fixtures
    /\ followers = F
    /\ likes = [k \in LikeKeys |-> 0]
    /\ posts = P
    /\ now = 0
    /\ reqs = [w \in Workers |-> Idle]
    /\ issued = {}
    /\ password_hash = [u \in Users |-> generate_password_hash(FirstPassword)]
    /\ session = s
    /\ lastCall = [k \in Pairs |-> "none"]
    /\ lastOp = Op("init", None, None, FALSE, FALSE, FALSE, None)

InitWith(P, s) == InitFull([k \in Pairs |-> 0], P, s)

Init == InitWith({}, None)

\* The state of the fixtures: the users exist and MaxPosts posts have been
\* created, by the users in turn.
FixturePosts(n) ==
    {[id |-> i, user_id |-> 1 + (i % NumUsers), timestamp |-> 0, body |-> TestBody] :
        i \in 1..n}

InitPosted == InitWith(FixturePosts(MaxPosts), None)

\* The same with room for one more post.
InitRoom == InitWith(FixturePosts(MaxPosts - 1), None)

\* A table of more posts than a page can hold, written one tick after the other
ManyPosts ==
    {[id |-> i, user_id |-> 1 + (i % NumUsers), timestamp |-> i, body |-> TestBody] :
        i \in 1..max_per_page + 1}

\* The fixtures of the listings: the first user follows the second, and there
\* are no posts, posts of one age, or many posts.
InitListing ==
    \E P \in {FixturePosts(n) : n \in 0..MaxPosts} \cup {ManyPosts} :
       InitFull([k \in Pairs |-> IF k = <<1, 2>> THEN 1 ELSE 0], P, None)

\* The user table is empty, or holds the first users only.
InitRegistered(n) ==
    /\ accounts = {r \in Fixtures : r.id <= n}
    /\ followers = [k \in Pairs |-> 0]
    /\ likes = [k \in LikeKeys |-> 0]
    /\ posts = {}
    /\ now = 0 /\ reqs = [w \in Workers |-> Idle] /\ issued = {}
    /\ password_hash = [u \in Users |-> generate_password_hash(FirstPassword)]
    /\ session = None
    /\ lastCall = [k \in Pairs |-> "none"]
    /\ lastOp = Op("init", <<>>, <<>>, FALSE, FALSE, FALSE, [status |-> 0])

\* The users and posts to search: one more user than a search lists, in
\* names of growing length, and posts of three bodies.
SearchUsers ==
    {[id |-> i, username |-> UserName(i), email |-> Mail(i), about_me |-> <<>>,
      last_seen |-> 0] :
        i \in 1..search_limit + 1}
SearchBodies == <<TestBody, <<"h", "o">>, <<"S", "h", "h">>>>
SearchPosts(n) ==
    {[id |-> i, user_id |-> 1, timestamp |-> i \div 2,
      body |-> SearchBodies[1 + (i % Len(SearchBodies))]] : i \in 1..n}

InitSearch ==
    /\ accounts = SearchUsers
    /\ followers = [k \in Pairs |-> 0]
    /\ likes = [k \in LikeKeys |-> 0]
    /\ posts \in {SearchPosts(n) : n \in {0, 2 * POSTS_PER_PAGE + 1}}
    /\ now = 0
    /\ reqs = [w \in Workers |-> Idle]
    /\ issued = {}
    /\ password_hash = [u \in Users |-> generate_password_hash(FirstPassword)]
    /\ session = None
    /\ lastCall = [k \in Pairs |-> "none"]
    /\ lastOp = Op("init", <<>>, Args(FALSE, 0, FALSE, 0), FALSE, FALSE, FALSE, [status |-> 0])

\* The fixtures with posts, and the first user following the second.
InitFollowing ==
    InitFull([k \in Pairs |-> IF k = <<1, 2>> THEN 1 ELSE 0], FixturePosts(MaxPosts), None)

\* One of the users is logged in.
InitLoggedIn == \E u \in Users : InitWith({}, u)

\* ------------------------------------------- sequential follow / unfollow
NextFollow ==
    \/ \E a \in Users, b \in Users : CallFollow(a, b)
    \/ \E a \in Users, b \in Users : CallUnfollow(a, b)

SpecFollow == Init /\ [][NextFollow]_vars

\* C1: after any sequential sequence of follow and unfollow calls every ordered
\* pair (A,B) has at most one follow edge, and is_following(A,B) is true exactly
\* when the most recent call on the pair was follow(A,B); a follow repeated
\* right after itself leaves exactly one edge.
C1_FollowEdgeState ==
    /\ \A a \in Users, b \in Users :
          /\ followers[<<a, b>>] <= 1
          /\ is_following(followers, a, b) <=> (lastCall[<<a, b>>] = "follow")
    /\ (lastOp.op = "follow" /\ lastOp.rep) => followers[<<lastOp.a, lastOp.b>>] = 1

C1_Witness ==
    /\ lastOp.op = "follow" /\ lastOp.rep /\ lastOp.pre
    /\ followers[<<lastOp.a, lastOp.b>>] = 1
    /\ \E a \in Users, b \in Users :
          lastCall[<<a, b>>] = "unfollow" /\ ~is_following(followers, a, b)

\* C4: unfollow(A,B) when A does not follow B raises nothing and leaves the
\* set of follow edges exactly as it was.
C4_UnfollowAbsentNoOp ==
    [][(lastOp'.op = "unfollow" /\ ~lastOp'.pre)
         => (followers' = followers /\ ~lastOp'.err)]_vars

C4_Witness ==
    /\ lastOp.op = "unfollow" /\ ~lastOp.pre /\ ~lastOp.err
    /\ \E k \in Pairs : followers[k] = 1

\* ------------------------------------------------ sequential like / unlike
NextLike ==
    \/ \E p \in PostIds, u \in Users : CallLike(p, u)
    \/ \E p \in PostIds, u \in Users : CallUnlike(p, u)
    \/ \E p \in PostIds \cup {None}, u \in Users : like_post_api(p, u)
    \/ \E p \in PostIds \cup {None}, u \in Users : unlike_post_api(p, u)

SpecLike == InitPosted /\ [][NextLike]_vars

IsLikeOf(o, p, u) == o.op \in {"like", "like_api"} /\ o.a = p /\ o.b = u

\* C2: a like of post P by user U who does not like it raises like_count(P) by
\* exactly 1; a like of the same pair right after a like leaves like_count(P)
\* as it is; both leave is_liked_by(P,U) true and raise nothing, and a second
\* like that comes through the API endpoint answers 200 with the unchanged count.
C2_LikeTwiceCountsOnce ==
    [][\A p \in PostIds, u \in Users :
         (IsLikeOf(lastOp', p, u) /\ PostExists(posts, p)) =>
            /\ ~lastOp'.err
            /\ is_liked_by(likes', p, u)
            /\ ~is_liked_by(likes, p, u)
                  => like_count(likes', p) = like_count(likes, p) + 1
            /\ lastOp'.rep
                  => /\ like_count(likes', p) = like_count(likes, p)
                     /\ lastOp'.op = "like_api"
                           => lastOp'.ret = <<200, like_count(likes, p)>>]_vars

C2_Witness ==
    /\ lastOp.op = "like_api" /\ lastOp.rep /\ lastOp.pre
    /\ like_count(likes, lastOp.a) = 1
    /\ lastOp.ret = <<200, 1>>

\* C3: unlike(P,U) when U does not like P raises nothing and leaves every like
\* edge of every post, hence like_count(P), as it was.
C3_UnlikeAbsentNoOp ==
    [][(lastOp'.op = "unlike" /\ ~lastOp'.pre) => (likes' = likes /\ ~lastOp'.err)]_vars

C3_Witness ==
    /\ lastOp.op = "unlike" /\ ~lastOp.pre /\ ~lastOp.err
    /\ \E k \in LikeKeys : likes[k] = 1

\* ------------------------------------------------------------------ feed
NextFeed ==
    \/ \E u \in Users, t \in {now, now + 1} : FeedNewPost(u, t)
    \/ \E b \in Users : FeedFollow(b)
    \/ \E b \in Users : FeedUnfollow(b)

SpecFeed == InitLoggedIn /\ [][NextFeed]_vars

\* The posts the feed of u is specified to hold: u's own and those of the users u follows
VisiblePosts(u) ==
    {r \in posts : r.user_id = u \/ is_following(followers, u, r.user_id)}

PostsOf(v) == {r \in posts : r.user_id = v}

\* C5: in every state, for every user U, every listing followed_posts(U) can
\* return holds exactly the posts written by U or by a user U follows, each
\* exactly once (also when U follows U), newest first.
C5_FeedIsUnionOnceNewestFirst ==
    \A u \in Users :
       /\ followed_posts(followers, posts, u) # {}
       /\ \A s \in followed_posts(followers, posts, u) :
             /\ {s[i] : i \in DOMAIN s} = VisiblePosts(u)
             /\ \A i \in DOMAIN s, j \in DOMAIN s : s[i] = s[j] => i = j
             /\ \A i \in DOMAIN s, j \in DOMAIN s :
                   i < j => s[i].timestamp >= s[j].timestamp

\* u follows u and v, both have posts of different ages, and v, who follows
\* nobody, is not shown u's posts
C5_Witness ==
    \E u \in Users, v \in Users :
       /\ u # v
       /\ is_following(followers, u, u) /\ is_following(followers, u, v)
       /\ \A w \in Users : ~is_following(followers, v, w)
       /\ \E r1 \in PostsOf(u), r2 \in PostsOf(v) : r1.timestamp # r2.timestamp
       /\ \E s \in followed_posts(followers, posts, u) : Len(s) = Cardinality(posts)
       /\ \E s \in followed_posts(followers, posts, v) : Len(s) < Cardinality(posts)

OwnPostsInFeed ==
    \A u \in Users : \A s \in followed_posts(followers, posts, u) :
       PostsOf(u) \subseteq {s[i] : i \in DOMAIN s}

\* C6 as stated: the feed of U holds all of U's posts, and for ALL users U and
\* V a follow from U to V that adds the edge, V having posts, makes the feed of
\* U longer by the number of V's posts.
C6_AsStated ==
    /\ []OwnPostsInFeed
    /\ [][(lastOp'.op = "follow" /\ ~lastOp'.pre /\ PostsOf(lastOp'.b) # {})
            => followed_posts_count(followers', posts', lastOp'.a)
                 = followed_posts_count(followers, posts, lastOp'.a)
                   + Cardinality(PostsOf(lastOp'.b))]_vars

\* C6 (amended): the feed of U holds all of U's posts, also when U follows
\* nobody, and for all users U and V with V other than U, a follow from U to V
\* that adds the edge, V having posts, makes the feed of U longer by exactly
\* the number of V's posts.
C6_FollowOtherGrowsFeed ==
    /\ []OwnPostsInFeed
    /\ [][(lastOp'.op = "follow" /\ ~lastOp'.pre /\ lastOp'.a # lastOp'.b
              /\ PostsOf(lastOp'.b) # {})
            => /\ followed_posts_count(followers', posts', lastOp'.a)
                    = followed_posts_count(followers, posts, lastOp'.a)
                      + Cardinality(PostsOf(lastOp'.b))
               /\ followed_posts_count(followers', posts', lastOp'.a)
                    > followed_posts_count(followers, posts, lastOp'.a)]_vars

\* u has just followed v, who has posts, follows nobody and still sees their own
C6_Witness ==
    /\ lastOp.op = "follow" /\ ~lastOp.pre /\ lastOp.a # lastOp.b
    /\ PostsOf(lastOp.b) # {}
    /\ \A w \in Users : ~is_following(followers, lastOp.b, w)
    /\ followed_posts_count(followers, posts, lastOp.b) = Cardinality(PostsOf(lastOp.b))
    /\ followed_posts_count(followers, posts, lastOp.a)
          = Cardinality(PostsOf(lastOp.a)) + Cardinality(PostsOf(lastOp.b))

\* ------------------------------------------------- concurrent follow requests
NextRaceFollow ==
    \/ \E w \in Workers, cu \in Users, name \in Users \cup {None}, ok \in BOOLEAN :
          route_follow(w, cu, name, ok)
    \/ \E w \in Workers, cu \in Users, name \in Users \cup {None}, ok \in BOOLEAN :
          route_unfollow(w, cu, name, ok)
    \/ \E w \in Workers : commit_follow(w)

SpecRaceFollow == Init /\ [][NextRaceFollow]_vars

\* C7: whatever the interleaving of two follow requests for the same pair
\* (A,B), the store ends with at most one follow edge A->B.
\* (and so B's follower count is at most the number of B's followers)
C7_AtMostOneFollowEdge ==
    (\A w \in Workers : reqs[w].pc = "idle") =>
       /\ \A a \in Users, b \in Users : followers[<<a, b>>] <= 1
       /\ \A b \in Users :
             follower_count(followers, b)
                <= Cardinality({a \in Users : is_following(followers, a, b)})

\* --------------------------------------------------- concurrent like requests
NextRaceLike ==
    \/ \E w \in Workers, cu \in Users, p \in PostIds \cup {None} : like_post(w, cu, p)
    \/ \E w \in Workers, cu \in Users, p \in PostIds \cup {None} : unlike_post(w, cu, p)
    \/ \E w \in Workers : commit_like(w)

SpecRaceLike == InitPosted /\ [][NextRaceLike]_vars

\* C8: in every reachable state, concurrent like requests of one user on one
\* post included, the likes table holds at most one row per (user, post), so
\* like_count(P) is the number of distinct users who like P.
C8_OneLikeRowPerPair ==
    /\ \A k \in LikeKeys : likes[k] <= 1
    /\ \A p \in PostIds :
          like_count(likes, p) = Cardinality({u \in Users : is_liked_by(likes, p, u)})

\* two like requests of one user on one post ran concurrently: the first has
\* committed its row, the second was refused at its commit
C8_Witness ==
    /\ lastOp.op = "like_route" /\ lastOp.err /\ lastOp.ret = 500
    /\ \E k \in LikeKeys : likes[k] = 1

\* ------------------------------------------------------------ reset tokens
NextToken ==
    \/ TickFine
    \/ \E secs \in {reset_expires_in - 1, reset_expires_in} : Wait(secs)
    \/ \E u \in Users \cup {None}, auth \in BOOLEAN, sub \in BOOLEAN :
          reset_password_request(u, auth, sub)
    \/ \E tok \in Presentable : CallVerify(tok)
    \/ \E tok \in Presentable, pw \in Passwords \ {FirstPassword},
          auth \in BOOLEAN, sub \in BOOLEAN :
          reset_password(tok, pw, auth, sub)

SpecToken == Init /\ [][NextToken]_vars

Seconds(n) == n * TicksPerSec

\* the last call verified a token that get_reset_password_token made for a user
VerifiedIssue(i) == lastOp.op = "verify" /\ i \in issued /\ lastOp.a = i.token

\* C9 as stated: verify(issue(U)) returns U whenever at most 600 seconds have
\* passed between the issue and the verification, 600 seconds exactly included.
C9_AsStated ==
    \A i \in issued :
       (VerifiedIssue(i) /\ now - i.at <= Seconds(reset_expires_in)) => lastOp.ret = i.user

\* C9 (amended): verify(issue(U)) returns U whenever the verification comes
\* before the whole second the token's exp is cut down to, which covers every
\* elapsed time of 599 seconds or less; after exactly 600 seconds it returns no user.
C9_RoundTripBeforeTruncatedExp ==
    \A i \in issued :
       VerifiedIssue(i) =>
          /\ now - i.at <= Seconds(reset_expires_in - 1) => lastOp.ret = i.user
          /\ now < Seconds((i.at + Seconds(reset_expires_in)) \div TicksPerSec)
                => lastOp.ret = i.user
          /\ now - i.at = Seconds(reset_expires_in) => lastOp.ret = None

\* a token issued off the whole second, verified 599 seconds later
C9_Witness ==
    \E i \in issued :
       /\ VerifiedIssue(i)
       /\ i.at % TicksPerSec # 0
       /\ now - i.at = Seconds(reset_expires_in - 1)
       /\ lastOp.ret = i.user

\* what C10 names: a string that is no token, a token whose signature is not
\* that of its payload under the secret key, a reset token past its expiry
Malformed(tok) == tok.segments # 3
WrongSignature(tok) == tok.segments = 3 /\ tok.sig # Sign(tok.payload, SECRET_KEY)
PastExpiry(tok, t) == tok.segments = 3 /\ t > tok.payload.exp
Rejectable(tok, t) == Malformed(tok) \/ WrongSignature(tok) \/ PastExpiry(tok, t)

\* C10: verify_reset_password_token returns no user, and raises nothing, for a
\* malformed string, for a token with a wrong signature and for a reset token
\* past its expiry; the reset route given such a token redirects to the index
\* page and changes no password.
C10_BadTokenNoUserNoReset ==
    /\ []((lastOp.op = "verify" /\ Rejectable(lastOp.a, now))
            => (lastOp.ret = None /\ ~lastOp.err))
    /\ [][(lastOp'.op = "reset_route" /\ Rejectable(lastOp'.a, now'))
            => (password_hash' = password_hash /\ lastOp'.ret = <<302, "index">>)]_vars

\* an anonymous client submitted a new password with a genuine token that has
\* expired and was turned away; malformed and wrongly signed tokens can be
\* presented in the same state
C10_Witness ==
    /\ lastOp.op = "reset_route" /\ ~lastOp.pre /\ lastOp.rep
    /\ \E i \in issued : lastOp.a = i.token /\ PastExpiry(i.token, now)
    /\ lastOp.ret = <<302, "index">>
    /\ \E tok \in Presentable : Malformed(tok)
    /\ \E tok \in Presentable : WrongSignature(tok)

\* -------------------------------------------------- the API's token check
\* what a client can put in the Authorization header
TamperedLogin(tok) ==
    IF "user_id" \in DOMAIN tok.payload
    THEN {[tok EXCEPT !.payload.user_id = u] : u \in Users \ {tok.payload.user_id}}
            \cup {[tok EXCEPT !.payload.exp = @ + expires_in * TicksPerSec]}
    ELSE {}

BearerTokens ==
    {i.token : i \in issued}
       \cup UNION {TamperedLogin(i.token) : i \in issued}
       \cup {jwt_encode([user_id |-> u, exp |-> 3 * expires_in * TicksPerSec], OtherKey) :
                u \in Users}
       \cup {Garbage}

ApiHeaders ==
    {NoHeader, [parts |-> 1, scheme |-> "Bearer", token |-> Garbage]}
       \cup {Header("Bearer", tok) : tok \in BearerTokens}
       \cup {Header("Basic", i.token) : i \in issued}

GoodLogin(u) == LoginData(TRUE, UserName(u), FirstPassword)

NextGate ==
    \/ \E secs \in {expires_in - 1, expires_in, expires_in + 1} : Wait(secs)
    \/ \E u \in Users : api_login(GoodLogin(u))
    \/ \E u \in Users : reset_password_request(u, FALSE, TRUE)
    \/ \E h \in ApiHeaders, p \in PostIds \cup {None} : api_request(h, p)

SpecGate == InitPosted /\ [][NextGate]_vars

\* the headers C11 names: no bearer token, an expired token, a token that is
\* not a well-formed, correctly signed login token
NoBearer(h) == h.parts # 2 \/ h.scheme # "Bearer"
NotALoginToken(tok) ==
    Malformed(tok) \/ WrongSignature(tok) \/ "user_id" \notin DOMAIN tok.payload
Unauthorized(h, t) == NoBearer(h) \/ NotALoginToken(h.token) \/ PastExpiry(h.token, t)

\* C11: a request to a token-protected API route with no bearer token, an
\* expired token or a token that is not a well-formed, correctly signed login
\* token (a correctly signed token without a user id included) is answered
\* with 401, the route function does not run and no stored state changes.
C11_BadBearerIs401 ==
    [][(lastOp'.op = "api" /\ Unauthorized(lastOp'.a, now'))
         => /\ lastOp'.ret.status = 401
            /\ ~lastOp'.ret.ran
            /\ UNCHANGED <<accounts, followers, likes, posts, password_hash>>]_vars

\* --------------------------------------------------------------- API login
NoName == <<"n", "o">>
LoginDatas ==
    {LoginData(j, n, pw) : j \in BOOLEAN,
                           n \in {UserName(u) : u \in Users} \cup {<<>>, NoName},
                           pw \in Passwords \cup {""}}

NextLogin ==
    \/ TickFine
    \/ \E data \in LoginDatas : api_login(data)

SpecLogin == Init /\ [][NextLogin]_vars

\* the request names the registered user u and gives u's password
Credentials(d, u) ==
    /\ d.json /\ d.password = FirstPassword
    /\ \E r \in accounts : r.id = u /\ r.username = d.username
Incomplete(d) == ~d.json \/ d.username = <<>> \/ d.password = ""

Padded(l, n, r) == Rep(" ", l) \o Rep("a", n) \o Rep("\t", r)
Bodies ==
    {Padded(l, n, r) : l \in 0..1, n \in {0, 1, MaxBodyLen, MaxBodyLen + 1}, r \in 0..1}
       \cup {<<"a", " ", "b">>}
PostDatas ==
    {PostData(FALSE, FALSE, FALSE, <<>>), PostData(TRUE, FALSE, FALSE, <<>>),
     PostData(TRUE, TRUE, TRUE, <<>>)}
       \cup {PostData(TRUE, TRUE, FALSE, b) : b \in Bodies}

NextCreate == \E u \in Users, data \in PostDatas : create_post(u, data)

SpecCreate == InitRoom /\ [][NextCreate]_vars

\* the text without the whitespace around it: from its first to its last
\* character that is not whitespace
Trimmed(s) ==
    LET blank(i) == s[i] \in Whitespace
        first == CHOOSE i \in 1..Len(s) + 1 :
                    (i = Len(s) + 1 \/ ~blank(i)) /\ \A j \in 1..i - 1 : blank(j)
        last  == CHOOSE i \in 0..Len(s) :
                    (i = 0 \/ ~blank(i)) /\ \A j \in i + 1..Len(s) : blank(j)
    IN  SubSeq(s, first, last)
HasText(d) == d.json /\ d.has_body /\ ~d.null

\* C13: an API create-post request is answered with 201, and adds exactly one
\* post, owned by the requester, whose body is the trimmed text, exactly when
\* the trimmed text has between 1 and 140 characters; a missing body, a text
\* empty after trimming and a trimmed text of 141 or more characters are
\* answered with 400 and add no post; nothing is truncated.
C13_CreatePostLength ==
    [][lastOp'.op = "create_post" =>
         LET u == lastOp'.a
             d == lastOp'.b
             r == lastOp'.ret
             fits == HasText(d) /\ Len(Trimmed(d.body)) \in 1..140
         IN  /\ r.status = 201 <=> fits
             /\ fits => \E row \in posts' \ posts :
                           /\ posts' = posts \cup {row}
                           /\ row.user_id = u /\ row.body = Trimmed(d.body)
                           /\ \A q \in posts : q.id # row.id
             /\ (~d.json \/ ~d.has_body) => r.status = 400
             /\ (HasText(d) /\ ~fits) => r.status = 400
             /\ r.status # 201 => posts' = posts
             /\ \A q \in posts' : Len(q.body) \in 1..140]_vars

\* a padded text of exactly 140 letters was accepted and stored trimmed, and a
\* text of 141 letters can be sent in the same state
C13_Witness ==
    /\ lastOp.op = "create_post" /\ lastOp.ret.status = 201
    /\ Len(lastOp.b.body) > MaxBodyLen
    /\ \E q \in posts : q.id = lastOp.ret.id /\ Len(q.body) = MaxBodyLen
    /\ \E d \in PostDatas : HasText(d) /\ Len(Trimmed(d.body)) = MaxBodyLen + 1

\* ------------------------------------------------------------ delete post
NextDelete ==
    \/ \E p \in PostIds, u \in Users : CallLike(p, u)
    \/ \E cu \in Users, p \in PostIds \cup {None} : delete_post(cu, p)
    \/ \E u \in Users, p \in PostIds \cup {None} : delete_post_api(u, p)

SpecDelete == InitPosted /\ [][NextDelete]_vars

IsDelete(o) == o.op \in {"delete_page", "delete_api"}

LikesRefer ==
    \A k \in LikeKeys :
       likes[k] > 0 => (PostExists(posts, k[2]) /\ \E a \in accounts : a.id = k[1])

\* C15: in every reachable state every like edge refers to an existing post
\* and an existing user; deleting post P removes P and all its like edges and
\* leaves the like edges of every other post as they were.
C15_DeleteTakesLikes ==
    /\ []LikesRefer
    /\ [][(IsDelete(lastOp') /\ PostExists(posts, lastOp'.b)
              /\ lastOp'.a = author_of(posts, lastOp'.b))
            => /\ ~PostExists(posts', lastOp'.b)
               /\ ~HasLikes(likes', lastOp'.b)
               /\ \A k \in LikeKeys : k[2] # lastOp'.b => likes'[k] = likes[k]]_vars

\* a post that had likes was deleted by its author while another post keeps its likes
C15_Witness ==
    /\ IsDelete(lastOp) /\ lastOp.pre /\ lastOp.b \in PostIds
    /\ ~PostExists(posts, lastOp.b)
    /\ \E k \in LikeKeys : likes[k] > 0

\* ---------------------------------------------------------------- listings
\* the query strings sent: no page, the second page, a page past the last;
\* no per_page, small ones, the largest, and larger ones
LastPage == 1 + (max_per_page + 1) \div default_per_page
ListArgs ==
    {Args(hp, p, hpp, pp) : hp \in {TRUE}, p \in {2, LastPage + 1}, hpp \in {TRUE},
                            pp \in {1, max_per_page, max_per_page + 1}}
       \cup {Args(FALSE, 0, FALSE, 0), Args(FALSE, 0, TRUE, MaxPosts),
             Args(FALSE, 0, TRUE, max_per_page + default_per_page)}

NextListing ==
    \/ \E args \in ListArgs : get_posts(args)
    \/ \E u \in Users \cup {None}, args \in ListArgs : get_user_posts(u, args)
    \/ \E u \in Users, args \in ListArgs : get_feed(u, args)

SpecListing == InitListing /\ [][NextListing]_vars

IsListing(o) == o.op \in {"get_posts", "get_user_posts", "get_feed"} /\ o.ret.status = 200

\* the ordered result set a listing request pages through
ResultSets(o) ==
    IF o.op = "get_posts" THEN order_by_timestamp_desc(all_query(posts))
    ELSE IF o.op = "get_user_posts" THEN order_by_timestamp_desc(user_posts_query(posts, o.a))
    ELSE followed_posts(followers, posts, o.a)

CeilDiv(n, d) == IF n % d = 0 THEN n \div d ELSE n \div d + 1

\* the slice [(page - 1) * size, page * size) of s
Slice(s, page, size) ==
    [i \in 1..(IF Len(s) - (page - 1) * size < 0 THEN 0
               ELSE IF Len(s) - (page - 1) * size < size THEN Len(s) - (page - 1) * size
               ELSE size) |-> s[(page - 1) * size + i]]

\* C16: for page >= 1 and per_page in 1..100, the response of a listing holds
\* exactly the slice [(page-1)*per_page, page*per_page) of the ordered result
\* set, with the metadata total item count, total page count =
\* ceil(total/per_page), has_next and has_prev; a page past the last gives an
\* empty slice and no error.
C16_ListingIsSliceWithMetadata ==
    (IsListing(lastOp) /\ per_page_unclamped(lastOp.b) \in 1..100 /\ page_of(lastOp.b) >= 1) =>
       LET page == page_of(lastOp.b)
           size == per_page_unclamped(lastOp.b)
           meta == lastOp.ret.pagination
       IN  /\ \E s \in ResultSets(lastOp) :
                 /\ lastOp.ret.posts = Slice(s, page, size)
                 /\ meta.total_items = Len(s)
                 /\ meta.total_pages = CeilDiv(Len(s), size)
                 /\ page > meta.total_pages => lastOp.ret.posts = <<>>
           /\ {"has_next", "has_prev"} \subseteq DOMAIN meta
           /\ meta.has_next = (page < meta.total_pages)
           /\ meta.has_prev = (page > 1)

\* the page size C20 names for a request: 20 when none is asked for, the one
\* asked for up to 100, and 100 beyond
Effective(args) ==
    IF ~args.has_per_page THEN 20
    ELSE IF args.per_page <= 100 THEN args.per_page ELSE 100

\* C20: whatever per_page a listing request of the API asks for (none, one in
\* 1..100, or one above 100), the page size applied is between 1 and 100: 20
\* by default, 100 for values above 100; no page carries more than 100 posts,
\* and the per_page of the pagination metadata is the page size applied.
C20_PerPageClamped ==
    (IsListing(lastOp) /\ (lastOp.b.has_per_page => lastOp.b.per_page >= 1)) =>
       LET size == Effective(lastOp.b)
           page == page_of(lastOp.b)
           meta == lastOp.ret.pagination
       IN  /\ size \in 1..100
           /\ meta.per_page = size
           /\ Len(lastOp.ret.posts) <= 100
           /\ \E s \in ResultSets(lastOp) : lastOp.ret.posts = Slice(s, page, size)
           /\ meta.total_pages = CeilDiv(meta.total_items, size)

\* a request for more than 100 posts a page, of a table of more than 100
\* posts, was answered with exactly 100
C20_Witness ==
    /\ IsListing(lastOp) /\ lastOp.b.has_per_page /\ lastOp.b.per_page > 100
    /\ lastOp.ret.pagination.total_items > 100
    /\ Len(lastOp.ret.posts) = 100
    /\ lastOp.ret.pagination.per_page = 100

\* ------------------------------------------------ unique names and emails
\* what the forms are sent: the names and addresses of the first two fixtures
Names == {UserName(1), UserName(2)}
Mails == {Mail(1), Mail(2)}
Biographies == {<<>>, <<"b">>}
Members == {r.id : r \in accounts}

NextRegister ==
    \/ \E w \in Workers, cu \in Members \cup {None}, username \in Names, email \in Mails,
          password \in Passwords, form_ok \in BOOLEAN :
          register(w, cu, username, email, password, form_ok)
    \/ \E w \in Workers, cu \in Members \cup {None}, username \in Names,
          about_me \in Biographies, form_ok \in BOOLEAN :
          edit_profile(w, cu, username, about_me, form_ok)
    \/ \E w \in Workers : commit_user(w)

SpecRegister == (\E n \in 0..1 : InitRegistered(n)) /\ [][NextRegister]_vars

\* a request is answered in this step: none goes into service
Answered == \A w \in Workers : reqs'[w].pc = "commit" => reqs[w].pc = "commit"

UniqueUsers ==
    \A r1, r2 \in accounts :
       r1 # r2 => r1.id # r2.id /\ r1.username # r2.username /\ r1.email # r2.email

\* C17: in every state reached by registrations and profile edits, no two
\* users have the same username and no two the same email; a registration
\* whose username or email a user already has fails (it is not answered with
\* the redirect to the login page that follows a registration) and leaves the
\* user table and the credentials as they were.
C17_UniqueUsernameAndEmail ==
    /\ []UniqueUsers
    /\ [][(lastOp'.op = "register" /\ Answered
           /\ \E r \in accounts : r.username = lastOp'.a \/ r.email = lastOp'.b)
            => /\ accounts' = accounts
               /\ password_hash' = password_hash
               /\ lastOp'.ret.status = 302 => lastOp'.ret.to # "login"]_vars

\* two users are registered, and the last registration, of a name or an
\* address that was taken, was refused
C17_Witness ==
    /\ Cardinality(accounts) = NumUsers
    /\ lastOp.op = "register"
    /\ lastOp.ret.status \in {200, 500}
    /\ \E r \in accounts : r.username = lastOp.a \/ r.email = lastOp.b

\* --------------------------------------------------------------- passwords
\* the passwords tried: the ones that are set, and one that never is
WrongPassword == "wrongpassword"
Candidates == Passwords \cup {WrongPassword}

NextPassword ==
    \/ \E u \in Users, pw \in Passwords : CallSetPassword(u, pw)
    \/ \E u \in Users, pw \in Candidates : CallCheckPassword(u, pw)
    \/ \E u \in Users \cup {None}, auth \in BOOLEAN, sub \in BOOLEAN :
          reset_password_request(u, auth, sub)
    \/ \E tok \in Presentable, pw \in Passwords, auth \in BOOLEAN, sub \in BOOLEAN :
          reset_password(tok, pw, auth, sub)

SpecPassword == Init /\ [][NextPassword]_vars

\* the stored value is the plaintext and nothing else
StoresPlaintext(u, pw) == password_hash[u] = <<pw>>

\* this step is a password reset that went through
ResetDone == lastOp'.op = "reset_route" /\ lastOp'.ret = <<302, "login">>

\* this step is a set_password of user u, called directly or by a reset
SetsPasswordOf(u) ==
    \/ lastOp'.op = "set_password" /\ lastOp'.a = u
    \/ ResetDone /\ lastOp'.a.payload.reset_password = u

\* C18: check_password(user, p) is true exactly when p is the plaintext of the
\* last set_password on that user (at first the password the fixture set; a
\* step that is no set_password of the user leaves every answer as it was), the
\* stored credential is never the plaintext, a check changes nothing, and after
\* a password reset that went through the password of the form verifies for
\* the user the token was made for, no other password does (the old one
\* included), and no other user's credential has changed.
C18_CheckPasswordIsLastSet ==
    /\ \A u \in Users, q \in Candidates :
          check_password(password_hash, u, q) <=> q = FirstPassword
    /\ [](\A u \in Users, q \in Candidates : ~StoresPlaintext(u, q))
    /\ []((lastOp.op = "check_password")
            => (lastOp.ret <=> check_password(password_hash, lastOp.a, lastOp.b)))
    /\ [][\A u \in Users, q \in Candidates :
             check_password(password_hash', u, q)
                <=> IF SetsPasswordOf(u) THEN q = lastOp'.b
                    ELSE check_password(password_hash, u, q)]_vars
    /\ [][ResetDone =>
             \E i \in issued :
                /\ i.token = lastOp'.a
                /\ check_password(password_hash', i.user, lastOp'.b)
                /\ \A v \in Users \ {i.user} : password_hash'[v] = password_hash[v]]_vars

\* a reset to another password went through: the old password of the token's
\* user no longer verifies, the new one does, and the others have theirs
C18_Witness ==
    /\ lastOp.op = "reset_route" /\ lastOp.ret = <<302, "login">>
    /\ lastOp.b # FirstPassword
    /\ \E i \in issued :
          /\ i.token = lastOp.a
          /\ ~check_password(password_hash, i.user, FirstPassword)
          /\ check_password(password_hash, i.user, lastOp.b)
          /\ \A v \in Users \ {i.user} : check_password(password_hash, v, FirstPassword)

\* ------------------------------------------------------------------ search
\* the query texts sent: none, blank, letters of either case, a longer text,
\* a text nothing holds, and the two characters LIKE reads as wildcards
Queries ==
    {<<>>, <<" ">>, <<"h">>, <<"H">>, <<"s", "s">>, <<"U", "s">>, <<"z">>, <<"_">>, <<"%">>}
SearchArgs == {Args(FALSE, 0, FALSE, 0), Args(TRUE, 2, FALSE, 0), Args(TRUE, 4, FALSE, 0)}

NextSearch ==
    \E cu \in Users \cup {None}, has_q \in BOOLEAN, q \in Queries, args \in SearchArgs :
       search(cu, has_q, q, args)

SpecSearch == InitSearch /\ [][NextSearch]_vars

\* q is a substring of str, whatever the case of the letters
RECURSIVE StartsWith(_, _)
StartsWith(str, q) ==
    \/ q = <<>>
    \/ str # <<>> /\ lower_char(Head(str)) = lower_char(Head(q))
                  /\ StartsWith(Tail(str), Tail(q))
Contains(str, q) ==
    \E i \in 0..Len(str) : StartsWith(SubSeq(str, i + 1, Len(str)), q)

Searched == lastOp.op = "search" /\ lastOp.ret.status = 200

\* the query of the last search: none when q is missing, empty or blank
NoQuery == ~lastOp.pre \/ strip(lastOp.a) = <<>>

\* C19: a search with the query text q returns at most 10 users, each with a
\* username that contains q as a case-insensitive substring, and the page asked
\* for of the posts whose body contains q as a case-insensitive substring, and
\* of no others, newest first; an empty or missing query returns no users and
\* no posts, without an error.
C19_SearchBySubstring ==
    Searched =>
       IF NoQuery THEN lastOp.ret.users = {} /\ lastOp.ret.posts = <<>>
       ELSE /\ Cardinality(lastOp.ret.users) <= 10
            /\ lastOp.ret.users \subseteq accounts
            /\ \A u \in lastOp.ret.users : Contains(u.username, lastOp.a)
            /\ \E s \in order_by_timestamp_desc(
                           [r \in posts |-> IF Contains(r.body, lastOp.a) THEN 1 ELSE 0]) :
                  lastOp.ret.posts = Slice(s, page_of(lastOp.b), POSTS_PER_PAGE)

\* ------------------------------------------------------- unknown ids (API)
\* the ids requests name: those of the fixtures and one past them
AskedPosts == 1..MaxPosts + 1
AskedUsers == 1..NumUsers + 1
NoArgs == Args(FALSE, 0, FALSE, 0)

NextNotFound ==
    \/ \E u \in Users, p \in AskedPosts : get_post(u, p)
    \/ \E u \in Users, p \in AskedPosts : delete_post_api(u, p)
    \/ \E u \in Users, p \in AskedPosts : like_post_api(p, u)
    \/ \E u \in Users, p \in AskedPosts : unlike_post_api(p, u)
    \/ \E u \in Users, v \in AskedUsers : get_user(u, v)
    \/ \E v \in AskedUsers : get_user_posts(v, NoArgs)

SpecNotFound == InitFollowing /\ [][NextNotFound]_vars

\* the post id or user id the request of o names, and the status of its answer
PostNamed(o) ==
    IF o.op \in {"like_api", "unlike_api"} THEN o.a
    ELSE IF o.op \in {"get_post", "delete_api"} THEN o.b
    ELSE None
UserNamed(o) ==
    IF o.op = "get_user" THEN o.b ELSE IF o.op = "get_user_posts" THEN o.a ELSE None
StatusOf(o) == IF o.op \in {"like_api", "unlike_api"} THEN o.ret[1] ELSE o.ret.status

NamesPost(o) == o.op \in {"like_api", "unlike_api", "get_post", "delete_api"}
NamesUser(o) == o.op \in {"get_user", "get_user_posts"}

\* C21: an API request (get, delete, like or unlike of a post, profile or posts
\* of a user) that names a post id no post has, or a user id no user has, is
\* answered with 404 and leaves posts, like edges and follow edges as they
\* were.
C21_UnknownIdIs404 ==
    [][((NamesPost(lastOp') /\ ~PostExists(posts, PostNamed(lastOp')))
          \/ (NamesUser(lastOp') /\ \A r \in accounts : r.id # UserNamed(lastOp')))
         => /\ StatusOf(lastOp') = 404
            /\ UNCHANGED <<posts, likes, followers>>]_vars

\* a post that had a like was deleted, and the same delete request, sent once
\* more, names no post any longer and is answered with 404
C21_Witness ==
    /\ lastOp.op = "delete_api" /\ lastOp.ret.status = 404
    /\ lastOp.b \in PostIds /\ ~PostExists(posts, lastOp.b)
    /\ \E k \in LikeKeys : likes[k] > 0
    /\ \E k \in Pairs : followers[k] > 0

\* ------------------------------------------------ life of a login token
\* The first user's browser logs in and out and resets its password while
\* the API tokens of the first and the last user age.
NextLifecycle ==
    \/ TickFine
    \/ \E secs \in {expires_in - 1, expires_in} : Wait(secs)
    \/ NextSecond
    \/ \E u \in {1, NumUsers}, pw \in Passwords :
          api_login(LoginData(TRUE, UserName(u), pw))
    \/ \E i \in LoginTokens : api_request(Header("Bearer", i.token), None)
    \/ \E pw \in Passwords, ok \in BOOLEAN : login(UserName(1), pw, ok)
    \/ logout
    \/ reset_password_request(1, FALSE, TRUE)
    \/ \E i \in ResetTokens : reset_password(i.token, "pw2", FALSE, TRUE)

SpecLifecycle == Init /\ [][NextLifecycle]_vars

\* the last request presented the login token of issue i as its Bearer token
Presented(i) == lastOp.op = "api" /\ lastOp.a = Header("Bearer", i.token)

AcceptedAs(u) == lastOp.ret.status = 200 /\ lastOp.ret.ran /\ lastOp.ret.user = u

RejectedExpired ==
    lastOp.ret.status = 401 /\ lastOp.ret.error = "Token expired" /\ ~lastOp.ret.ran

ExpOf(i) == (i.at \div TicksPerSec) * TicksPerSec + Seconds(expires_in)

C22_RejectedEarly ==
    \E i \in LoginTokens :
       Presented(i) /\ RejectedExpired /\ now - i.at < Seconds(expires_in)

\* ------------------------------------------------- a reset token used again
\* Users ask for reset mails and follow the link of a mail any number of
\* times, each time with a password that is not their current one.
NextReuse ==
    \/ TickFine
    \/ \E secs \in {reset_expires_in - 1, reset_expires_in} : Wait(secs)
    \/ \E u \in Users : reset_password_request(u, FALSE, TRUE)
    \/ \E i \in ResetTokens, pw \in Passwords, sub \in BOOLEAN :
          /\ ~check_password_hash(password_hash[i.user], pw)
          /\ reset_password(i.token, pw, FALSE, sub)
    \/ \E u \in Users, pw \in Passwords : CallCheckPassword(u, pw)

SpecReuse == Init /\ [][NextReuse]_vars

\* the last request posted a new password to the link of the mail of issue i
ResetPosted(i) ==
    /\ lastOp.op = "reset_route" /\ lastOp.a = i.token
    /\ ~lastOp.pre /\ lastOp.rep

\* C23: a reset token is not revoked by its use: whenever the link of a mail
\* is posted to before the token's expiry, the reset route accepts the token
\* and sets the password, also when the same token has set a password
\* before; from its expiry on the route sets nothing.
C23_ResetTokenReusable ==
    \A i \in ResetTokens :
       ResetPosted(i) =>
          IF now < IntExp(i.token.payload)
          THEN /\ lastOp.ret = <<302, "login">>
               /\ check_password_hash(password_hash[i.user], lastOp.b)
          ELSE /\ lastOp.ret = <<302, "index">>
               /\ ~check_password_hash(password_hash[i.user], lastOp.b)

\* the only token of a user has just set the user's first password again,
\* which it can only do after it has set another password before
C23_Witness ==
    \E i \in ResetTokens :
       /\ ResetPosted(i) /\ lastOp.ret = <<302, "login">>
       /\ lastOp.b = FirstPassword
       /\ check_password_hash(password_hash[i.user], FirstPassword)
       /\ \A j \in ResetTokens : j.user = i.user => j = i

\* ------------------------------------------- one request, one transaction
\* Logged-in users like and unlike posts from several workers while the
\* clock runs.
NextAtomic ==
    \/ TickFine
    \/ \E w \in Workers, cu \in Users, p \in PostIds \cup {None} : like_post(w, cu, p)
    \/ \E w \in Workers, cu \in Users, p \in PostIds \cup {None} : unlike_post(w, cu, p)
    \/ \E w \in Workers : commit_like(w)

SpecAtomic == InitPosted /\ [][NextAtomic]_vars

\* the step puts a request of worker w in service: its hook and its checks
\* have run, its statement waits for the handler's commit
TakesInService(w) == reqs[w].pc = "idle" /\ reqs'[w].pc = "commit"

\* C24: a request commits as a single transaction: while its handler's
\* mutation is not committed (and may yet be refused and discarded), nothing
\* done on its behalf, the last_seen refresh included, is visible in the store.
C24_OneTransactionPerRequest ==
    [][\A w \in Workers : TakesInService(w) => accounts' = accounts]_vars

\* ------------------------------------------------------------- last_seen
\* The browser logs in, looks at the explore page and logs out, API clients
\* log in and ask for /api/me, while the clock runs.
NextSeen ==
    \/ TickFine
    \/ \E u \in Users : api_login(GoodLogin(u))
    \/ \E i \in LoginTokens : api_request(Header("Bearer", i.token), None)
    \/ api_request(NoHeader, None)
    \/ \E u \in Users, pw \in Passwords : login(UserName(u), pw, TRUE)
    \/ explore(session)
    \/ logout

SpecSeen == Init /\ [][NextSeen]_vars

last_seen(user) == row_of(accounts, user).last_seen

\* C25: after a request of an authenticated user, be it a page request of the
\* session's user or an API request with a valid token, the user's last_seen
\* is the time of the request.
C25_LastSeenIsRequestTime ==
    /\ (lastOp.op = "explore" /\ lastOp.a # None) => last_seen(lastOp.a) = now
    /\ (lastOp.op = "api" /\ lastOp.ret.ran) => last_seen(lastOp.ret.user) = now

\* ------------------------------------------------------ life of a session
\* One browser, used by the first and the last user in turn: it sends its
\* next request when the last one is answered, and every request carries the
\* browser's session.
Quiet == \A w \in Workers : reqs[w].pc = "idle"

InitSession == InitWith(FixturePosts(MaxPosts - 1), None)

\* the worker that serves the browser
Browser == CHOOSE w \in Workers : TRUE

NextSession ==
    \/ \E u \in {1, NumUsers, NumUsers + 1}, pw \in Passwords, ok \in BOOLEAN :
          Quiet /\ login(UserName(u), pw, ok)
    \/ Quiet /\ logout
    \/ \E sub \in BOOLEAN : Quiet /\ index(session, sub, TestBody)
    \/ Quiet /\ explore(session)
    \/ \E u \in {1, NumUsers + 1} : Quiet /\ user_page(session, UserName(u))
    \/ \E name \in {1, NumUsers, None}, ok \in BOOLEAN :
          Quiet /\ route_follow(Browser, session, name, ok)
    \/ \E name \in {1, NumUsers, None}, ok \in BOOLEAN :
          Quiet /\ route_unfollow(Browser, session, name, ok)
    \/ Quiet /\ like_post(Browser, session, 1)
    \/ Quiet /\ unlike_post(Browser, session, 1)
    \/ \E p \in PostIds : Quiet /\ delete_post(session, p)
    \/ Quiet /\ search(session, TRUE, <<"H">>, NoArgs)
    \/ \E about_me \in Biographies :
          Quiet /\ edit_profile(Browser, session, UserName(1), about_me, TRUE)
    \/ commit_follow(Browser)
    \/ commit_like(Browser)
    \/ commit_user(Browser)

SpecSession == InitSession /\ [][NextSession]_vars

\* the routes under @login_required, as lastOp names them
ProtectedOps ==
    {"index", "user", "explore", "follow_route", "unfollow_route", "like_route",
     "unlike_route", "delete_page", "search", "edit_profile"}

\* the page routes whose lastOp.a is the current_user they ran as
AttributedOps == {"index", "user", "explore", "delete_page"}

LoggedIn == lastOp.ret = Redirect("index", "")

\* what holds of the session in every state
SessionState ==
    /\ (lastOp.op = "login" /\ ~lastOp.pre) =>
          IF LoggedIn
          THEN /\ session # None
               /\ session = first_by_username(accounts, lastOp.a)
               /\ check_password(password_hash, session, lastOp.b)
          ELSE session = None
    /\ (lastOp.op = "login" /\ lastOp.pre) => session # None
    /\ lastOp.op = "logout" => session = None
    /\ lastOp.op \in AttributedOps => lastOp.a = session
    /\ (lastOp.op = "index" /\ session # None /\ lastOp.ret.status = 302) =>
          \E r \in posts : r.user_id = session /\ r.body = lastOp.b
    /\ (session = None /\ lastOp.op \in ProtectedOps) => lastOp.ret = Redirect("login", "")

\* C26: a successful page login as U makes U the session's user, and the
\* session's user stays U until logout (requests are attributed to U); a
\* failed login establishes no session; while nobody is logged in every
\* request to a login-protected page route is redirected to the login page
\* and no request changes posts, like edges, follow edges or profiles.
C26_SessionLifecycle ==
    /\ [] SessionState
    /\ [][session # None => session' \in {session, None}]_vars
    /\ [][session = None =>
             UNCHANGED <<posts, likes, followers, accounts, password_hash>>]_vars

\* somebody has logged in, liked a post and logged out; the browser's like
\* request after that is redirected to the login page
C26_Witness ==
    /\ session = None
    /\ lastOp.op = "like_route" /\ lastOp.ret = Redirect("login", "")
    /\ \E k \in LikeKeys : likes[k] = 1

\* ------------------------------------------- followers, inverse of followed
\* the users who follow user, and the users user follows
FollowersOf(user) == {a \in Users : is_following(followers, a, user)}
FollowedBy(user) == {b \in Users : is_following(followers, user, b)}

\* C27: in every reachable state follower_count(B) is the number of users A
\* with is_following(A,B) and following_count(A) is the number of users B
\* with is_following(A,B).
C27_CountsAreEdgeCounts ==
    \A u \in Users :
       /\ follower_count(followers, u) = Cardinality(FollowersOf(u))
       /\ following_count(followers, u) = Cardinality(FollowedBy(u))

\* ------------------------------------------------------------ self-follow
\* The page routes and the JSON API serve all users, who name themselves or
\* the first user, and the model layer is called with the last user as its
\* own target.
NextSelf ==
    \/ \E cu \in Users : \E name \in {cu, 1, None}, ok \in BOOLEAN :
          route_follow(Browser, cu, name, ok)
    \/ \E cu \in Users : \E name \in {cu, 1, None}, ok \in BOOLEAN :
          route_unfollow(Browser, cu, name, ok)
    \/ commit_follow(Browser)
    \/ \E id \in AskedUsers : get_user(1, id)
    \/ \E u \in Users : like_post_api(1, u)
    \/ CallFollow(NumUsers, NumUsers)
    \/ CallUnfollow(NumUsers, NumUsers)

SpecSelf == InitPosted /\ [][NextSelf]_vars

\* the model layer has not been called for the pair (u, u): the state of the
\* pair is the work of the page routes and the JSON API alone
RoutesOnly(u) == lastCall[<<u, u>>] = "none"

\* C28: User.follow(U, U) at the model layer creates the self edge without
\* error, whereas in every state that the page routes and the JSON API alone
\* have made of a pair (U, U) without a self edge, U does not follow U.
C28_SelfFollowOnlyBelowRoutes ==
    /\ (lastOp.op = "follow" /\ lastOp.a = lastOp.b) =>
          (is_following(followers, lastOp.a, lastOp.a) /\ ~lastOp.err)
    /\ \A u \in Users : RoutesOnly(u) => ~is_following(followers, u, u)

\* a user follows themself by the model layer; the follow route has just
\* answered, and a user whom only the routes served follows another user and
\* not themself
C28_Witness ==
    /\ lastOp.op = "follow_route"
    /\ \E u \in Users : is_following(followers, u, u) /\ ~RoutesOnly(u)
    /\ \E u \in Users : RoutesOnly(u) /\ ~is_following(followers, u, u)
    /\ \E a \in Users, b \in Users : a # b /\ is_following(followers, a, b)

\* ------------------------------------------------------ two token flavours
\* The first user gets login tokens, the first and the last user get reset
\* mails; every token that was made is
\* presented as a Bearer token, verified as a reset token and posted to the
\* reset route, before and after the reset tokens expire.
NextFlavour ==
    \/ TickFine
    \/ \E secs \in {reset_expires_in - 1, reset_expires_in} : Wait(secs)
    \/ api_login(GoodLogin(1))
    \/ \E u \in {1, NumUsers} : reset_password_request(u, FALSE, TRUE)
    \/ \E i \in issued, p \in {1, None} : api_request(Header("Bearer", i.token), p)
    \/ \E i \in issued : CallVerify(i.token)
    \/ \E i \in issued : reset_password(i.token, "pw2", FALSE, TRUE)

SpecFlavour == InitPosted /\ [][NextFlavour]_vars

IsResetToken(tok) == \E i \in ResetTokens : i.token = tok
IsLoginToken(tok) == \E i \in LoginTokens : i.token = tok

\* C29: a reset token presented as an API Bearer token never authenticates
\* (the request is not answered with success and the protected handler does
\* not run), and a login token given to verify_reset_password_token or to
\* the reset route yields no user and sets no password.
C29_FlavoursNotInterchangeable ==
    /\ (lastOp.op = "api" /\ IsResetToken(lastOp.a.token)) =>
          (~lastOp.ret.ran /\ lastOp.ret.status \in {401, 500})
    /\ (lastOp.op = "verify" /\ IsLoginToken(lastOp.a)) => lastOp.ret = None
    /\ (lastOp.op = "reset_route" /\ IsLoginToken(lastOp.a)) => lastOp.ret = <<302, "index">>
    /\ \A u \in Users :
          (\A i \in ResetTokens : i.user # u) => check_password(password_hash, u, FirstPassword)

\* a reset token that has not expired was presented as a Bearer token, while
\* a login token of the same user is out: the request was refused
C29_Witness ==
    /\ lastOp.op = "api" /\ IsResetToken(lastOp.a.token)
    /\ now < IntExp(lastOp.a.token.payload)
    /\ ~lastOp.ret.ran
    /\ \E i \in LoginTokens : i.user = lastOp.a.token.payload.reset_password

=============================================================================
